---- MODULE Spec2Model ----
(***************************************************************************)
(* soil: a facade of one-line forwarders to std::fs (src/src/lib.rs) and a *)
(* command-line front end (src/src/main.rs).                               *)
(*                                                                         *)
(* The state of the program is the state of the filesystem below the       *)
(* working directory (node), plus the call that has just returned (last)   *)
(* and the filesystem that call started from (old).                        *)
(* The filesystem is an inode table: directories map names to inodes,      *)
(* regular files hold bytes, symbolic links hold a target path.  Every     *)
(* facade function is an operator named as in lib.rs; the std::fs call it  *)
(* forwards to is the operator fs_<call>, which follows the POSIX          *)
(* behaviour of that call on Linux (the cfg(unix) build).                  *)
(***************************************************************************)
EXTENDS Integers, Sequences, FiniteSets, TLC

VARIABLES node, old, last, chmod_run

vars == <<node, old, last, chmod_run>>

(***************************************************************************)
(* Bounds of the model.                                                    *)
(***************************************************************************)
\* inodes besides the working directory (inode 0); a call that needs one
\* more fails with StorageFull (ENOSPC)
MaxInodes == 5
\* bytes of a content argument
MaxLen == 2
\* symbolic links followed in one resolution before FilesystemLoop (ELOOP)
MaxHops == 2

\* the names an entry can have: three of one letter, and one of the single
\* byte 0xFF, which only a program that does not pass its paths as str can
\* give to an entry
Names == {"a", "b", "c", "0xFF"}
\* the bytes of a name (OsStr::as_bytes)
NameBytes == [n \in Names |->
                CASE n = "a" -> <<97>> [] n = "b" -> <<98>> [] n = "c" -> <<99>>
                  [] n = "0xFF" -> <<255>>]
\* the order in which a directory is enumerated from
NameOrder == <<"a", "b", "c", "0xFF">>
\* 'A', and 0xC3, which opens a two-byte character and is not UTF-8 by itself
Bytes == {65, 195}

\* inode 0 is the working directory, which every path argument is relative to
Ino == 0 .. MaxInodes
\* what a directory holds under a name it has no entry for
NoIno == MaxInodes + 1

RECURSIVE SeqsUpTo(_, _)
SeqsUpTo(S, n) ==
    IF n = 0 THEN {<<>>}
    ELSE LET shorter == SeqsUpTo(S, n - 1)
         IN  shorter \cup {Append(s, x) : s \in {t \in shorter : Len(t) = n - 1}, x \in S}

\* a path argument is a relative path, the sequence of its components
Contents == SeqsUpTo(Bytes, MaxLen)

NoEnts == [n \in Names |-> NoIno]
\* mode holds the permission bits of the inode (st_mode & 0o7777); locked says
\* that the inode belongs to another user, who gave this process no access
FreeNode ==
    [kind |-> "free", ents |-> NoEnts, data |-> <<>>, target |-> <<>>, locked |-> FALSE,
     mode |-> 0]
\* a new inode gets 0o777 (a directory, a symbolic link) or 0o666 (a file)
\* without the bits of the umask, 0o022: 0o755 = 493, 0o644 = 420, and
\* 0o777 = 511 for a symbolic link, which the umask does not apply to
DirNode == [FreeNode EXCEPT !.kind = "dir", !.mode = 493]
FileNode(bytes) == [FreeNode EXCEPT !.kind = "file", !.data = bytes, !.mode = 420]
LinkNode(target) == [FreeNode EXCEPT !.kind = "symlink", !.target = target, !.mode = 511]

\* the owner's permission bits: S_IRUSR = 0o400, S_IWUSR = 0o200, S_IXUSR = 0o100.
\* This process is the owner of every inode that is not locked, and is not root.
MayRead(nd, i) == ~nd[i].locked /\ (nd[i].mode \div 256) % 2 = 1
MayWrite(nd, i) == ~nd[i].locked /\ (nd[i].mode \div 128) % 2 = 1
MaySearch(nd, i) == ~nd[i].locked /\ (nd[i].mode \div 64) % 2 = 1

\* fs::Metadata, of which the callers use file_type(), len() and mode()
NoMeta == [file_type |-> "", len |-> 0, mode |-> 0]

(***************************************************************************)
(* Results of a call: the filesystem it leaves, the io::ErrorKind of its   *)
(* error ("" for Ok), and the value it returns; of a run of the command    *)
(* line: the filesystem it leaves, the exit status of the process, and the *)
(* lines it wrote to standard output and to standard error.                *)
(***************************************************************************)
Done(nd) ==
    [nd |-> nd, err |-> "", flag |-> FALSE, bytes |-> <<>>, entries |-> <<>>,
     names |-> <<>>, target |-> <<>>, meta |-> NoMeta,
     exit |-> 0, stdout |-> <<>>, stderr |-> <<>>, calls |-> <<>>]
Fail(nd, kind) == [Done(nd) EXCEPT !.err = kind]

\* the result r of the std call of that name: calls is the log of the calls
\* into std::fs that the caller made, in the order it made them
Logged(name, r) == [r EXCEPT !.calls = <<name>>]

\* the result second of a caller that made the calls of first before it
Then(first, second) == [second EXCEPT !.calls = first.calls \o @]

(***************************************************************************)
(* Path resolution from the working directory (path_resolution(7)): every  *)
(* directory on the way must be searchable, a symbolic link met before the *)
(* last component is always followed, one met as the last component only   *)
(* when follow is set.  A link's target is taken relative to the directory *)
(* that holds the link.  ino = NoIno says that only the last component is  *)
(* missing; parent and name then say where it would be created.            *)
(* Besides names a path may hold the component ".", which stays where it   *)
(* is, and start with "/", which makes it absolute: "/" stands for the     *)
(* absolute path of the working directory, the only part of the filesystem *)
(* tree the model has.                                                     *)
(***************************************************************************)
WalkErr(kind) == [err |-> kind, ino |-> NoIno, parent |-> NoIno, name |-> ""]

RECURSIVE Walk(_, _, _, _, _)
Walk(nd, dir, path, follow, hops) ==
    IF path = <<>> THEN [err |-> "", ino |-> dir, parent |-> NoIno, name |-> ""]
    ELSE IF nd[dir].kind # "dir" THEN WalkErr("NotADirectory")
    ELSE IF ~MaySearch(nd, dir) THEN WalkErr("PermissionDenied")
    ELSE IF Head(path) = "." THEN Walk(nd, dir, Tail(path), follow, hops)
    ELSE IF Head(path) = "/" THEN Walk(nd, 0, Tail(path), follow, hops)
    ELSE LET n == Head(path)
             rest == Tail(path)
             e == nd[dir].ents[n]
         IN  IF e = NoIno
             THEN IF rest = <<>>
                  THEN [err |-> "", ino |-> NoIno, parent |-> dir, name |-> n]
                  ELSE WalkErr("NotFound")
             ELSE IF nd[e].kind = "symlink" /\ (rest # <<>> \/ follow)
             THEN IF hops = 0
                  THEN WalkErr("FilesystemLoop")
                  ELSE Walk(nd, dir, nd[e].target \o rest, follow, hops - 1)
             ELSE IF rest = <<>>
             THEN [err |-> "", ino |-> e, parent |-> dir, name |-> n]
             ELSE Walk(nd, e, rest, follow, hops)

\* stat(2) / open(2): follows a final symbolic link
Stat(nd, path) == Walk(nd, 0, path, TRUE, MaxHops)
\* lstat(2) / unlink(2) / mkdir(2) / rename(2): the final component itself
Lstat(nd, path) == Walk(nd, 0, path, FALSE, MaxHops)

(***************************************************************************)
(* Inode bookkeeping.  An inode no directory entry refers to any more is   *)
(* freed (its link count is 0; the facade keeps no file open across        *)
(* calls).  Inode numbers are not observable through the facade, so the    *)
(* table is kept in the order of a depth-first walk from the working       *)
(* directory, which gives every filesystem exactly one representation.     *)
(***************************************************************************)
RECURSIVE Visit(_, _)
RECURSIVE VisitEnts(_, _, _)
Visit(nd, i) ==
    <<i>> \o (IF nd[i].kind = "dir" THEN VisitEnts(nd, i, 1) ELSE <<>>)
VisitEnts(nd, i, k) ==
    IF k > Len(NameOrder) THEN <<>>
    ELSE LET e == nd[i].ents[NameOrder[k]]
         IN  (IF e = NoIno THEN <<>> ELSE Visit(nd, e)) \o VisitEnts(nd, i, k + 1)

RECURSIVE Dedup(_)
Dedup(s) ==
    IF s = <<>> THEN <<>>
    ELSE LET front == Dedup(SubSeq(s, 1, Len(s) - 1))
             x == s[Len(s)]
         IN  IF \E k \in 1 .. Len(front) : front[k] = x THEN front ELSE Append(front, x)

Settle(nd) ==
    LET order == Dedup(Visit(nd, 0))
        rank(i) == (CHOOSE k \in 1 .. Len(order) : order[k] = i) - 1
        moved(i) == [nd[i] EXCEPT !.ents =
                        [n \in Names |-> IF nd[i].ents[n] = NoIno THEN NoIno
                                         ELSE rank(nd[i].ents[n])]]
    IN  [k \in Ino |-> IF k < Len(order) THEN moved(order[k + 1]) ELSE FreeNode]

FreeInos(nd) == {i \in Ino : nd[i].kind = "free"}
NewIno(nd) == CHOOSE i \in FreeInos(nd) : \A j \in FreeInos(nd) : i <= j

\* add, replace or (with NoIno) remove the entry name of directory dir
SetEnt(nd, dir, name, ino) == [nd EXCEPT ![dir].ents[name] = ino]

\* a new inode holding fresh, entered as name in directory dir
Create(nd, dir, name, fresh) ==
    IF ~MayWrite(nd, dir) THEN Fail(nd, "PermissionDenied")
    ELSE IF FreeInos(nd) = {} THEN Fail(nd, "StorageFull")
    ELSE LET i == NewIno(nd)
         IN  Done(Settle(SetEnt([nd EXCEPT ![i] = fresh], dir, name, i)))

Entries(nd, dir) == {n \in Names : nd[dir].ents[n] # NoIno}

(***************************************************************************)
(* core::str::from_utf8, which fs::read_to_string applies to what it read: *)
(* the well-formed byte sequences of the Unicode standard (table 3-7).     *)
(***************************************************************************)
RECURSIVE Utf8From(_, _)
Utf8From(b, i) ==
    IF i > Len(b) THEN TRUE
    ELSE LET x == b[i]
             in(k, lo, hi) == k <= Len(b) /\ b[k] >= lo /\ b[k] <= hi
         IN  IF x < 128 THEN Utf8From(b, i + 1)
             ELSE IF x >= 194 /\ x <= 223
             THEN in(i + 1, 128, 191) /\ Utf8From(b, i + 2)
             ELSE IF x = 224
             THEN in(i + 1, 160, 191) /\ in(i + 2, 128, 191) /\ Utf8From(b, i + 3)
             ELSE IF (x >= 225 /\ x <= 236) \/ x = 238 \/ x = 239
             THEN in(i + 1, 128, 191) /\ in(i + 2, 128, 191) /\ Utf8From(b, i + 3)
             ELSE IF x = 237
             THEN in(i + 1, 128, 159) /\ in(i + 2, 128, 191) /\ Utf8From(b, i + 3)
             ELSE IF x = 240
             THEN /\ in(i + 1, 144, 191) /\ in(i + 2, 128, 191) /\ in(i + 3, 128, 191)
                  /\ Utf8From(b, i + 4)
             ELSE IF x >= 241 /\ x <= 243
             THEN /\ in(i + 1, 128, 191) /\ in(i + 2, 128, 191) /\ in(i + 3, 128, 191)
                  /\ Utf8From(b, i + 4)
             ELSE IF x = 244
             THEN /\ in(i + 1, 128, 143) /\ in(i + 2, 128, 191) /\ in(i + 3, 128, 191)
                  /\ Utf8From(b, i + 4)
             ELSE FALSE

ValidUtf8(b) == Utf8From(b, 1)

\* a &str argument: its bytes are UTF-8 by construction
Texts == {b \in Contents : ValidUtf8(b)}

(***************************************************************************)
(* The std::fs calls the facade forwards to, on the filesystem nd.         *)
(***************************************************************************)

\* fs::write: open(O_WRONLY | O_CREAT | O_TRUNC), then write_all
fs_write(nd, path, contents) ==
    Logged("fs::write",
    LET w == Stat(nd, path)
    IN  IF w.err # "" THEN Fail(nd, w.err)
        ELSE IF w.ino = NoIno THEN Create(nd, w.parent, w.name, FileNode(contents))
        ELSE IF nd[w.ino].kind = "dir" THEN Fail(nd, "IsADirectory")
        ELSE IF ~MayWrite(nd, w.ino) THEN Fail(nd, "PermissionDenied")
        ELSE Done([nd EXCEPT ![w.ino].data = contents]))

\* fs::read: open(O_RDONLY), then read_to_end
fs_read(nd, path) ==
    Logged("fs::read",
    LET w == Stat(nd, path)
    IN  IF w.err # "" THEN Fail(nd, w.err)
        ELSE IF w.ino = NoIno THEN Fail(nd, "NotFound")
        ELSE IF ~MayRead(nd, w.ino) THEN Fail(nd, "PermissionDenied")
        ELSE IF nd[w.ino].kind = "dir" THEN Fail(nd, "IsADirectory")
        ELSE [Done(nd) EXCEPT !.bytes = nd[w.ino].data])

\* fs::read_to_string: as fs::read, then from_utf8 on what was read
fs_read_to_string(nd, path) ==
    Logged("fs::read_to_string",
    LET r == fs_read(nd, path)
    IN  IF r.err # "" THEN r
        ELSE IF ~ValidUtf8(r.bytes) THEN Fail(nd, "InvalidData")
        ELSE r)

\* fs::create_dir: mkdir(2)
fs_create_dir(nd, path) ==
    Logged("fs::create_dir",
    LET w == Lstat(nd, path)
    IN  IF w.err # "" THEN Fail(nd, w.err)
        ELSE IF w.ino # NoIno THEN Fail(nd, "AlreadyExists")
        ELSE Create(nd, w.parent, w.name, DirNode))

\* Path::is_dir: metadata(path) succeeds and says directory
is_dir(nd, path) ==
    LET w == Stat(nd, path)
    IN  w.err = "" /\ w.ino # NoIno /\ nd[w.ino].kind = "dir"

\* Path::parent
parent(path) == SubSeq(path, 1, Len(path) - 1)

\* fs::create_dir_all (DirBuilder::create_dir_all): mkdir; on NotFound make
\* the parent first and mkdir again; any other error is forgiven when the
\* path is a directory by then
RECURSIVE fs_create_dir_all(_, _)
fs_create_dir_all(nd, path) ==
    Logged("fs::create_dir_all",
    IF path = <<>> THEN Done(nd)
    ELSE LET first == fs_create_dir(nd, path)
         IN  IF first.err = "" THEN first
             ELSE IF first.err # "NotFound"
             THEN IF is_dir(nd, path) THEN Done(nd) ELSE first
             ELSE LET up == fs_create_dir_all(nd, parent(path))
                  IN  IF up.err # "" THEN up
                      ELSE LET second == fs_create_dir(up.nd, path)
                           IN  IF second.err = "" THEN second
                               ELSE IF is_dir(up.nd, path) THEN Done(up.nd)
                               ELSE second)

\* fs::exists: Ok(true) when stat succeeds, Ok(false) when it fails with
\* NotFound, and the error of stat otherwise
fs_exists(nd, path) ==
    Logged("fs::exists",
    LET w == Stat(nd, path)
    IN  IF w.err = "" /\ w.ino # NoIno THEN [Done(nd) EXCEPT !.flag = TRUE]
        ELSE IF w.err \in {"", "NotFound"} THEN [Done(nd) EXCEPT !.flag = FALSE]
        ELSE Fail(nd, w.err))

\* fs::remove_file: unlink(2)
fs_remove_file(nd, path) ==
    Logged("fs::remove_file",
    LET w == Lstat(nd, path)
    IN  IF w.err # "" THEN Fail(nd, w.err)
        ELSE IF w.ino = NoIno THEN Fail(nd, "NotFound")
        ELSE IF nd[w.ino].kind = "dir" THEN Fail(nd, "IsADirectory")
        ELSE IF ~MayWrite(nd, w.parent) THEN Fail(nd, "PermissionDenied")
        ELSE Done(Settle(SetEnt(nd, w.parent, w.name, NoIno))))

\* fs::remove_dir: rmdir(2)
fs_remove_dir(nd, path) ==
    Logged("fs::remove_dir",
    LET w == Lstat(nd, path)
    IN  IF w.err # "" THEN Fail(nd, w.err)
        ELSE IF w.ino = NoIno THEN Fail(nd, "NotFound")
        ELSE IF nd[w.ino].kind # "dir" THEN Fail(nd, "NotADirectory")
        ELSE IF ~MayWrite(nd, w.parent) THEN Fail(nd, "PermissionDenied")
        ELSE IF Entries(nd, w.ino) # {} THEN Fail(nd, "DirectoryNotEmpty")
        ELSE Done(Settle(SetEnt(nd, w.parent, w.name, NoIno))))

\* remove_dir_all_recursive (std::sys::fs::unix): the entry name of directory
\* dir and everything below it, children first; stops at the first error and
\* leaves what it had removed by then removed
RECURSIVE remove_dir_all_recursive(_, _, _)
RECURSIVE RemoveChildren(_, _, _)
remove_dir_all_recursive(nd, dir, name) ==
    LET d == nd[dir].ents[name]
    IN  IF nd[d].kind # "dir"
        THEN IF MayWrite(nd, dir) THEN Done(SetEnt(nd, dir, name, NoIno))
             ELSE Fail(nd, "PermissionDenied")
        ELSE IF ~MayRead(nd, d) THEN Fail(nd, "PermissionDenied")
        ELSE IF Entries(nd, d) # {} /\ ~MaySearch(nd, d) THEN Fail(nd, "PermissionDenied")
        ELSE LET emptied == RemoveChildren(nd, d, 1)
             IN  IF emptied.err # "" THEN emptied
                 ELSE IF ~MayWrite(emptied.nd, dir) THEN Fail(emptied.nd, "PermissionDenied")
                 ELSE Done(SetEnt(emptied.nd, dir, name, NoIno))
RemoveChildren(nd, d, k) ==
    IF k > Len(NameOrder) THEN Done(nd)
    ELSE IF nd[d].ents[NameOrder[k]] = NoIno THEN RemoveChildren(nd, d, k + 1)
    ELSE LET r == remove_dir_all_recursive(nd, d, NameOrder[k])
         IN  IF r.err # "" THEN r ELSE RemoveChildren(r.nd, d, k + 1)

\* fs::remove_dir_all: lstat; a symbolic link is unlinked, anything else is
\* opened as a directory and removed recursively
fs_remove_dir_all(nd, path) ==
    Logged("fs::remove_dir_all",
    LET w == Lstat(nd, path)
    IN  IF w.err # "" THEN Fail(nd, w.err)
        ELSE IF w.ino = NoIno THEN Fail(nd, "NotFound")
        ELSE IF nd[w.ino].kind = "symlink" THEN fs_remove_file(nd, path)
        ELSE IF nd[w.ino].kind # "dir" THEN Fail(nd, "NotADirectory")
        ELSE LET r == remove_dir_all_recursive(nd, w.parent, w.name)
             IN  [r EXCEPT !.nd = Settle(r.nd)])

\* the inodes at and below inode i
Below(nd, i) == {Visit(nd, i)[k] : k \in 1 .. Len(Visit(nd, i))}

\* fs::rename: rename(2)
fs_rename(nd, from, to) ==
    Logged("fs::rename",
    LET f == Lstat(nd, from)
        t == Lstat(nd, to)
    IN  IF f.err # "" THEN Fail(nd, f.err)
        ELSE IF f.ino = NoIno THEN Fail(nd, "NotFound")
        ELSE IF t.err # "" THEN Fail(nd, t.err)
        ELSE IF nd[f.ino].kind = "dir" /\ t.parent \in Below(nd, f.ino)
        THEN Fail(nd, "InvalidInput")
        ELSE IF t.ino = f.ino THEN Done(nd)
        ELSE IF ~MayWrite(nd, f.parent) \/ ~MayWrite(nd, t.parent)
        THEN Fail(nd, "PermissionDenied")
        ELSE IF t.ino # NoIno /\ nd[f.ino].kind = "dir" /\ nd[t.ino].kind # "dir"
        THEN Fail(nd, "NotADirectory")
        ELSE IF t.ino # NoIno /\ nd[f.ino].kind # "dir" /\ nd[t.ino].kind = "dir"
        THEN Fail(nd, "IsADirectory")
        ELSE IF nd[f.ino].kind = "dir" /\ ~MayWrite(nd, f.ino) /\ t.parent # f.parent
        THEN Fail(nd, "PermissionDenied")
        ELSE IF t.ino # NoIno /\ nd[t.ino].kind = "dir" /\ Entries(nd, t.ino) # {}
        THEN Fail(nd, "DirectoryNotEmpty")
        ELSE Done(Settle(SetEnt(SetEnt(nd, f.parent, f.name, NoIno),
                                t.parent, t.name, f.ino))))

\* the sequences that hold every element of S once
Orders(S) ==
    {s \in SeqsUpTo(S, Cardinality(S)) :
        Len(s) = Cardinality(S) /\ \A n \in S : \E k \in 1 .. Len(s) : s[k] = n}

\* fs::read_dir: opendir(3); the iterator then yields the io::Result<DirEntry>
\* of stream, one for every readdir(3)
fs_read_dir(nd, path, stream) ==
    Logged("fs::read_dir",
    LET w == Stat(nd, path)
    IN  IF w.err # "" THEN Fail(nd, w.err)
        ELSE IF w.ino = NoIno THEN Fail(nd, "NotFound")
        ELSE IF nd[w.ino].kind # "dir" THEN Fail(nd, "NotADirectory")
        ELSE IF ~MayRead(nd, w.ino) THEN Fail(nd, "PermissionDenied")
        ELSE [Done(nd) EXCEPT !.entries = stream])

\* the orders fs::read_dir may enumerate the directory at path in
ReadDirOrders(nd, path) ==
    LET w == Stat(nd, path)
    IN  IF w.err = "" /\ w.ino # NoIno /\ nd[w.ino].kind = "dir"
        THEN Orders(Entries(nd, w.ino))
        ELSE {<<>>}

\* what the iterator of fs::read_dir may yield for the directory at path:
\* every entry (never "." or "..") once, in some order; or, when a
\* readdir(3) fails (EIO), be it the one that would have found the end of
\* the directory, the entries before it and then its error, after which the
\* iterator ends
ReadDirStreams(nd, path) ==
    LET yielded(order) == [k \in 1 .. Len(order) |-> [err |-> "", file_name |-> order[k]]]
        broken(order, k) ==
            Append(SubSeq(yielded(order), 1, k - 1), [err |-> "Uncategorized", file_name |-> ""])
    IN  {yielded(order) : order \in ReadDirOrders(nd, path)}
        \cup UNION {{broken(order, k) : k \in 1 .. Len(order) + 1} :
                        order \in ReadDirOrders(nd, path)}

\* fs::hard_link: linkat(2) without AT_SYMLINK_FOLLOW
fs_hard_link(nd, original, link) ==
    Logged("fs::hard_link",
    LET o == Lstat(nd, original)
        l == Lstat(nd, link)
    IN  IF o.err # "" THEN Fail(nd, o.err)
        ELSE IF o.ino = NoIno THEN Fail(nd, "NotFound")
        ELSE IF l.err # "" THEN Fail(nd, l.err)
        ELSE IF l.ino # NoIno THEN Fail(nd, "AlreadyExists")
        ELSE IF nd[o.ino].kind = "dir" THEN Fail(nd, "PermissionDenied")
        ELSE IF ~MayWrite(nd, l.parent) THEN Fail(nd, "PermissionDenied")
        ELSE Done(Settle(SetEnt(nd, l.parent, l.name, o.ino))))

\* std::os::unix::fs::symlink: symlink(2); the target is stored as given
fs_symlink(nd, original, link) ==
    Logged("std::os::unix::fs::symlink",
    LET l == Lstat(nd, link)
    IN  IF l.err # "" THEN Fail(nd, l.err)
        ELSE IF l.ino # NoIno THEN Fail(nd, "AlreadyExists")
        ELSE Create(nd, l.parent, l.name, LinkNode(original)))

\* fs::read_link: readlink(2)
fs_read_link(nd, path) ==
    Logged("fs::read_link",
    LET w == Lstat(nd, path)
    IN  IF w.err # "" THEN Fail(nd, w.err)
        ELSE IF w.ino = NoIno THEN Fail(nd, "NotFound")
        ELSE IF nd[w.ino].kind # "symlink" THEN Fail(nd, "InvalidInput")
        ELSE [Done(nd) EXCEPT !.target = nd[w.ino].target])

\* fs::copy: the source is opened for reading and must be a regular file;
\* the destination is opened with O_WRONLY | O_CREAT | O_TRUNC and given the
\* permission bits of the source, and only then are the bytes of the source
\* read and written
fs_copy(nd, from, to) ==
    Logged("fs::copy",
    LET f == Stat(nd, from)
    IN  IF f.err # "" THEN Fail(nd, f.err)
        ELSE IF f.ino = NoIno THEN Fail(nd, "NotFound")
        ELSE IF ~MayRead(nd, f.ino) THEN Fail(nd, "PermissionDenied")
        ELSE IF nd[f.ino].kind # "file" THEN Fail(nd, "InvalidInput")
        ELSE LET opened == fs_write(nd, to, <<>>)
             IN  IF opened.err # "" THEN opened
                 ELSE LET t == Stat(opened.nd, to)
                          bytes == opened.nd[Stat(opened.nd, from).ino].data
                      IN  Done([opened.nd EXCEPT ![t.ino].mode = nd[f.ino].mode,
                                                 ![t.ino].data = bytes]))

\* fs::canonicalize: realpath(3); every component must exist, every symbolic
\* link is resolved and every "." dropped; at is the canonical path of dir.
\* The result is absolute.
RECURSIVE RealPath(_, _, _, _, _)
RealPath(nd, dir, at, path, hops) ==
    IF path = <<>> THEN [Done(nd) EXCEPT !.target = <<"/">> \o at]
    ELSE IF nd[dir].kind # "dir" THEN Fail(nd, "NotADirectory")
    ELSE IF ~MaySearch(nd, dir) THEN Fail(nd, "PermissionDenied")
    ELSE IF Head(path) = "." THEN RealPath(nd, dir, at, Tail(path), hops)
    ELSE IF Head(path) = "/" THEN RealPath(nd, 0, <<>>, Tail(path), hops)
    ELSE LET n == Head(path)
             rest == Tail(path)
             e == nd[dir].ents[n]
         IN  IF e = NoIno THEN Fail(nd, "NotFound")
             ELSE IF nd[e].kind = "symlink"
             THEN IF hops = 0
                  THEN Fail(nd, "FilesystemLoop")
                  ELSE RealPath(nd, dir, at, nd[e].target \o rest, hops - 1)
             ELSE RealPath(nd, e, Append(at, n), rest, hops)

fs_canonicalize(nd, path) == Logged("fs::canonicalize", RealPath(nd, 0, <<>>, path, MaxHops))

\* the bytes of a path as a string: its names, each of one byte, with a
\* separator between them
PathLen(path) == IF path = <<>> THEN 0 ELSE 2 * Len(path) - 1

\* struct stat of inode i: st_mode holds the type of the file (S_IFDIR =
\* 0o040000, S_IFREG = 0o100000, S_IFLNK = 0o120000) above the permission
\* bits; st_size is the length of a file's content and of a symbolic link's
\* target, and one block for a directory
Metadata(nd, i) ==
    [file_type |-> nd[i].kind,
     len |-> IF nd[i].kind = "file" THEN Len(nd[i].data)
             ELSE IF nd[i].kind = "symlink" THEN PathLen(nd[i].target)
             ELSE 4096,
     mode |-> nd[i].mode + (IF nd[i].kind = "dir" THEN 16384
                            ELSE IF nd[i].kind = "file" THEN 32768
                            ELSE 40960)]

\* fs::metadata: stat(2)
fs_metadata(nd, path) ==
    Logged("fs::metadata",
    LET w == Stat(nd, path)
    IN  IF w.err # "" THEN Fail(nd, w.err)
        ELSE IF w.ino = NoIno THEN Fail(nd, "NotFound")
        ELSE [Done(nd) EXCEPT !.meta = Metadata(nd, w.ino)])

\* fs::symlink_metadata: lstat(2)
fs_symlink_metadata(nd, path) ==
    Logged("fs::symlink_metadata",
    LET w == Lstat(nd, path)
    IN  IF w.err # "" THEN Fail(nd, w.err)
        ELSE IF w.ino = NoIno THEN Fail(nd, "NotFound")
        ELSE [Done(nd) EXCEPT !.meta = Metadata(nd, w.ino)])

\* fs::set_permissions: chmod(2), which follows a symbolic link, is for the
\* owner of the file only, and keeps the bits below 0o10000 of the mode
fs_set_permissions(nd, path, perm) ==
    Logged("fs::set_permissions",
    LET w == Stat(nd, path)
    IN  IF w.err # "" THEN Fail(nd, w.err)
        ELSE IF w.ino = NoIno THEN Fail(nd, "NotFound")
        ELSE IF nd[w.ino].locked THEN Fail(nd, "PermissionDenied")
        ELSE Done([nd EXCEPT ![w.ino].mode = perm % 4096]))

(***************************************************************************)
(* The facade (src/src/lib.rs).                                            *)
(***************************************************************************)

\* OsStr::to_str on an entry name: Some exactly when the name is UTF-8
to_str_is_some(name) == ValidUtf8(NameBytes[name])

\* Path::to_string_lossy: a component that is not UTF-8 comes out as U+FFFD
to_string_lossy(path) ==
    [k \in 1 .. Len(path) |->
        IF path[k] \in {".", "/"} \/ to_str_is_some(path[k]) THEN path[k] ELSE "U+FFFD"]

\* trace_to_root forwarding to std::path::absolute, which puts the working
\* directory before the path and does not look at the filesystem
trace_to_root_absolute(nd, path) == [Done(nd) EXCEPT !.target = <<"/">> \o path]

trace_to_root(nd, path) ==
    LET r == fs_canonicalize(nd, path)
    IN  IF r.err = "" THEN [r EXCEPT !.target = to_string_lossy(r.target)]
        ELSE r

\* grow_branch forwarding to fs::create_dir instead of fs::create_dir_all
grow_branch_single(nd, path) == fs_create_dir(nd, path)

grow_branch(nd, path) ==
    LET r == fs_create_dir_all(nd, path)
    IN  IF r.err = "" THEN Then(r, Done(r.nd)) ELSE Then(r, Fail(r.nd, r.err))

\* exists written as fs::exists(path).is_ok()
exists_is_ok(nd, path) ==
    LET r == fs_exists(nd, path)
    IN  Then(r, [Done(r.nd) EXCEPT !.flag = (r.err = "")])

exists(nd, path) ==
    LET r == fs_exists(nd, path)
    IN  IF r.err = "" THEN r ELSE Then(r, [Done(r.nd) EXCEPT !.flag = FALSE])

\* the log of k steps of the iterator that fs::read_dir returned: each is a
\* readdir(3), and yields an entry, an error, or the end of the directory
Nexts(k) == [i \in 1 .. k |-> "ReadDir::next"]

\* the loop of survey_canopy pushing file_name().to_string_lossy() instead
\* of leaving out the names that to_str() refuses
RECURSIVE survey_loop_lossy(_, _, _, _)
survey_loop_lossy(nd, entries, k, names) ==
    IF k > Len(entries) THEN [Done(nd) EXCEPT !.names = names, !.calls = Nexts(k)]
    ELSE IF entries[k].err # "" THEN [Fail(nd, entries[k].err) EXCEPT !.calls = Nexts(k)]
    ELSE survey_loop_lossy(nd, entries, k + 1,
                           Append(names, to_string_lossy(<<entries[k].file_name>>)[1]))

\* the loop of survey_canopy over the entries from position k on
RECURSIVE survey_loop(_, _, _, _)
survey_loop(nd, entries, k, names) ==
    IF k > Len(entries) THEN [Done(nd) EXCEPT !.names = names, !.calls = Nexts(k)]
    ELSE IF entries[k].err # "" THEN [Fail(nd, entries[k].err) EXCEPT !.calls = Nexts(k)]
    ELSE IF to_str_is_some(entries[k].file_name)
    THEN survey_loop(nd, entries, k + 1, Append(names, entries[k].file_name))
    ELSE survey_loop(nd, entries, k + 1, names)

\* survey_canopy returning from inside the loop, after the first entry
survey_canopy_first_only(nd, path, stream) ==
    LET r == fs_read_dir(nd, path, stream)
    IN  IF r.err # "" THEN Then(r, Fail(r.nd, r.err))
        ELSE IF r.entries = <<>> THEN Then(r, survey_loop(r.nd, r.entries, 1, <<>>))
        ELSE Then(r, survey_loop(r.nd, <<r.entries[1]>>, 1, <<>>))

survey_canopy(nd, path, stream) ==
    LET r == fs_read_dir(nd, path, stream)
    IN  IF r.err # "" THEN Then(r, Fail(r.nd, r.err))
        ELSE Then(r, survey_loop(r.nd, r.entries, 1, <<>>))

\* propagate_leaf forwarding to fs::hard_link: rootstock becomes a second name
\* of the file instead of a copy of its bytes
propagate_leaf_as_link(nd, scion, rootstock) == fs_hard_link(nd, scion, rootstock)

propagate_leaf(nd, scion, rootstock) ==
    LET r == fs_copy(nd, scion, rootstock)
    IN  IF r.err = "" THEN Then(r, Done(r.nd)) ELSE Then(r, Fail(r.nd, r.err))

\* sprout_branch forwarding to fs::create_dir_all instead of fs::create_dir
sprout_branch_all(nd, path) == fs_create_dir_all(nd, path)

sprout_branch(nd, path) == fs_create_dir(nd, path)

\* shed_leaf emptying the file (fs::write(path, "")) instead of removing it
shed_leaf_truncate(nd, path) == fs_write(nd, path, <<>>)

\* shed_leaf taking the file away under every name it has
shed_leaf_every_name(nd, path) ==
    LET w == Lstat(nd, path)
        r == fs_remove_file(nd, path)
    IN  IF r.err # "" THEN r
        ELSE [r EXCEPT !.nd =
                Settle([d \in Ino |->
                    [nd[d] EXCEPT !.ents =
                        [n \in Names |-> IF nd[d].ents[n] = w.ino THEN NoIno
                                         ELSE nd[d].ents[n]]]])]

\* shed_leaf falling back to fs::remove_dir_all when the path is a directory
shed_leaf_or_grove(nd, path) ==
    LET r == fs_remove_file(nd, path)
    IN  IF r.err = "IsADirectory" THEN Then(r, fs_remove_dir_all(r.nd, path)) ELSE r

\* shed_leaf trying once more when fs::remove_file has failed
shed_leaf_retry(nd, path) ==
    LET r == fs_remove_file(nd, path)
    IN  IF r.err = "" THEN r ELSE Then(r, fs_remove_file(r.nd, path))

shed_leaf(nd, path) == fs_remove_file(nd, path)

\* prune_branch recovering from a failure of fs::remove_dir with a second
\* attempt, by fs::remove_dir_all
prune_branch_then_clear(nd, path) ==
    LET r == fs_remove_dir(nd, path)
    IN  IF r.err = "" THEN r ELSE fs_remove_dir_all(r.nd, path)

prune_branch(nd, path) == fs_remove_dir(nd, path)

\* clear_grove forwarding to fs::remove_dir instead of fs::remove_dir_all
clear_grove_empty_only(nd, path) == fs_remove_dir(nd, path)

clear_grove(nd, path) == fs_remove_dir_all(nd, path)

\* transplant forwarding to fs::copy: the source stays where it was
transplant_as_copy(nd, from, to) == fs_copy(nd, from, to)

transplant(nd, from, to) == fs_rename(nd, from, to)

\* harvest_essence reading through a String: fs::read_to_string(..).map(String::into_bytes)
harvest_essence_through_text(nd, path) == fs_read_to_string(nd, path)

\* harvest_essence opening with OpenOptions::new().read(true).write(true)
\* .create(true): a missing file is made, and read as empty
harvest_essence_creating(nd, path) ==
    LET r == fs_read(nd, path)
    IN  IF r.err = "NotFound" THEN Then(r, fs_write(r.nd, path, <<>>)) ELSE r

harvest_essence(nd, path) == fs_read(nd, path)

\* read_chronicle with one read(2) into a one-byte buffer instead of read_to_end
read_chronicle_one_read(nd, path) ==
    LET r == fs_read_to_string(nd, path)
    IN  IF r.err # "" \/ Len(r.bytes) <= 1 THEN r
        ELSE [r EXCEPT !.bytes = SubSeq(r.bytes, 1, 1)]

\* read_chronicle decoding with String::from_utf8_lossy: a malformed content
\* is read as U+FFFD (239 191 189) instead of being refused
read_chronicle_lossy(nd, path) ==
    LET r == fs_read(nd, path)
    IN  IF r.err # "" \/ ValidUtf8(r.bytes) THEN r
        ELSE [r EXCEPT !.bytes = <<239, 191, 189>>]

read_chronicle(nd, path) == fs_read_to_string(nd, path)

\* inscribe_leaf opening with OpenOptions::new().write(true).create(true) and
\* no truncate(true): the bytes of the old content beyond the new one stay
inscribe_leaf_no_truncate(nd, path, contents) ==
    LET w == Stat(nd, path)
        r == fs_write(nd, path, contents)
    IN  IF r.err # "" \/ w.ino = NoIno THEN r
        ELSE LET tail == SubSeq(nd[w.ino].data, Len(contents) + 1, Len(nd[w.ino].data))
             IN  Then(r, Done([nd EXCEPT ![w.ino].data = contents \o tail]))

inscribe_leaf(nd, path, contents) == fs_write(nd, path, contents)

\* create_hard_graft forwarding to fs::copy: link becomes a file of its own
create_hard_graft_as_copy(nd, original, link) == fs_copy(nd, original, link)

create_hard_graft(nd, original, link) == fs_hard_link(nd, original, link)

\* read_soft_connection forwarding to fs::canonicalize: where the link leads
\* instead of what it holds
read_soft_connection_resolved(nd, path) ==
    LET r == fs_canonicalize(nd, path)
    IN  IF r.err = "" THEN [r EXCEPT !.target = to_string_lossy(r.target)]
        ELSE r

read_soft_connection(nd, path) ==
    LET r == fs_read_link(nd, path)
    IN  IF r.err = "" THEN [r EXCEPT !.target = to_string_lossy(r.target)]
        ELSE r

\* create_soft_connection looking at the target first, as a hard link does
create_soft_connection_checked(nd, original, link) ==
    LET t == fs_metadata(nd, original)
    IN  IF t.err # "" THEN t ELSE Then(t, fs_symlink(nd, original, link))

create_soft_connection(nd, original, link) == fs_symlink(nd, original, link)

\* Path::is_dir: fs::metadata(path).map(|m| m.is_dir()).unwrap_or(false)
Path_is_dir(nd, path) == Logged("Path::is_dir", [Done(nd) EXCEPT !.flag = is_dir(nd, path)])

\* std::os::windows::fs::symlink_dir and symlink_file: the link holds the
\* target as given; whether it is a directory link is not kept here
symlink_dir(nd, original, link) ==
    Logged("std::os::windows::fs::symlink_dir", fs_symlink(nd, original, link))

symlink_file(nd, original, link) ==
    Logged("std::os::windows::fs::symlink_file", fs_symlink(nd, original, link))

\* create_soft_connection as built with cfg(windows)
create_soft_connection_windows(nd, original, link) ==
    LET original_path == Path_is_dir(nd, original)
    IN  IF original_path.flag
        THEN Then(original_path, symlink_dir(nd, original, link))
        ELSE Then(original_path, symlink_file(nd, original, link))

examine_specimen(nd, path) == fs_metadata(nd, path)

\* examine_outer_characteristics forwarding to fs::metadata, which follows a
\* final symbolic link
examine_outer_characteristics_following(nd, path) == fs_metadata(nd, path)

examine_outer_characteristics(nd, path) == fs_symlink_metadata(nd, path)

adjust_vitality(nd, path, permissions) == fs_set_permissions(nd, path, permissions)

(***************************************************************************)
(* The command line (src/src/main.rs).  It imports the functions of the    *)
(* library under the names of another revision of lib.rs, which src/ does  *)
(* not hold; each is the function that lib.rs has for the same operation.  *)
(***************************************************************************)
resolve_path(nd, path) == trace_to_root(nd, path)
copy_file(nd, src, dst) == propagate_leaf(nd, src, dst)
ensure_dir(nd, path) == grow_branch(nd, path)
create_dir(nd, path) == sprout_branch(nd, path)
list_dir(nd, path, stream) == survey_canopy(nd, path, stream)
remove_file(nd, path) == shed_leaf(nd, path)
remove_empty_dir(nd, path) == prune_branch(nd, path)
remove_dir_all(nd, path) == clear_grove(nd, path)
move_path(nd, from, to) == transplant(nd, from, to)
metadata(nd, path) == examine_specimen(nd, path)
read_bytes(nd, path) == harvest_essence(nd, path)
read_text(nd, path) == read_chronicle(nd, path)
write_file(nd, path, content) == inscribe_leaf(nd, path, content)
create_hard_link(nd, original, link) == create_hard_graft(nd, original, link)
create_symlink(nd, original, link) == create_soft_connection(nd, original, link)
read_symlink(nd, path) == read_soft_connection(nd, path)
set_permissions(nd, path, perms) == adjust_vitality(nd, path, perms)
symlink_metadata(nd, path) == examine_outer_characteristics(nd, path)

\* a & !b on u32: the bits of a that are not bits of b
RECURSIVE AndNot(_, _)
AndNot(a, b) ==
    IF a = 0 THEN 0
    ELSE (a % 2) * (1 - (b % 2)) + 2 * AndNot(a \div 2, b \div 2)

\* a & b on u32
RECURSIVE BitAnd(_, _)
BitAnd(a, b) ==
    IF a = 0 \/ b = 0 THEN 0
    ELSE (a % 2) * (b % 2) + 2 * BitAnd(a \div 2, b \div 2)

\* a | b on u32
RECURSIVE BitOr(_, _)
BitOr(a, b) ==
    IF a = 0 THEN b
    ELSE IF b = 0 THEN a
    ELSE (IF a % 2 = 1 \/ b % 2 = 1 THEN 1 ELSE 0) + 2 * BitOr(a \div 2, b \div 2)

\* Permissions::readonly on unix: no write bit (0o222) is set
readonly(mode) == BitAnd(mode, 146) = 0

\* the process ends: println! wrote the lines of out, eprintln! those of err
Exit(nd, code, out, err) ==
    [Done(nd) EXCEPT !.exit = code, !.stdout = out, !.stderr = err]

\* an arm that reports the error and goes on to the end of main, without
\* process::exit(1)
Report_without_exit(r, out, err) ==
    IF r.err = "" THEN Then(r, Exit(r.nd, 0, out, <<>>))
    ELSE Then(r, Exit(r.nd, 0, <<>>, << <<err, r.err>> >>))

\* the arm of most subcommands: match on the result of the one call it makes,
\* Ok => println!(..), Err(error) => { eprintln!(..); process::exit(1) }
Report(r, out, err) ==
    IF r.err = "" THEN Then(r, Exit(r.nd, 0, out, <<>>))
    ELSE Then(r, Exit(r.nd, 1, <<>>, << <<err, r.err>> >>))

\* the lines of the stat and lstat subcommands after the first
Described(meta, kinds) ==
    <<  <<"  Size: {} bytes", meta.len>>,
        <<"  Type: {}", IF meta.file_type \in DOMAIN kinds THEN kinds[meta.file_type] ELSE "Other">>,
        <<"  Read-only: {}", readonly(meta.mode)>>,
        <<"  Modified: {:?}">>  >>

\* Commands::Chmod on cfg(unix): the mode is read, the write bits are taken
\* from it or the owner's write bit is added to it, and the result is set
chmod_any_keyword(nd, path, mode) ==
    LET m == metadata(nd, path)
    IN  IF m.err # ""
        THEN Then(m, Exit(m.nd, 1, <<>>, << <<"Error reading metadata for '{}': {}", path, m.err>> >>))
        ELSE LET current_mode == m.meta.mode
                 new_mode == IF mode = "writable" THEN BitOr(current_mode, 128)
                             ELSE AndNot(current_mode, 146)
             IN  Then(m, Report(set_permissions(m.nd, path, new_mode),
                                << <<"Updated permissions of '{}' to {}", path, mode>> >>,
                                "Error updating permissions of '{}': {}"))

\* Commands::Chmod giving back every write bit with "writable": | 0o222
chmod_all_write_bits(nd, path, mode) ==
    LET m == metadata(nd, path)
    IN  IF m.err # ""
        THEN Then(m, Exit(m.nd, 1, <<>>, << <<"Error reading metadata for '{}': {}", path, m.err>> >>))
        ELSE IF mode \notin {"readonly", "writable"}
        THEN Then(m, Exit(m.nd, 1, <<>>, << <<"Invalid mode '{}'. Use 'readonly' or 'writable'", mode>> >>))
        ELSE LET current_mode == m.meta.mode
                 new_mode == IF mode = "readonly" THEN AndNot(current_mode, 146)
                             ELSE BitOr(current_mode, 146)
             IN  Then(m, Report(set_permissions(m.nd, path, new_mode),
                                << <<"Updated permissions of '{}' to {}", path, mode>> >>,
                                "Error updating permissions of '{}': {}"))

\* the arm taking the mode from the file once more when it sets it, not
\* from the metadata it matched on
chmod_arm_fresh(nd, m, path, mode) ==
    IF m.err # ""
    THEN Then(m, Exit(nd, 1, <<>>, << <<"Error reading metadata for '{}': {}", path, m.err>> >>))
    ELSE IF mode \notin {"readonly", "writable"}
    THEN Then(m, Exit(nd, 1, <<>>, << <<"Invalid mode '{}'. Use 'readonly' or 'writable'", mode>> >>))
    ELSE LET current_mode == metadata(nd, path).meta.mode
             new_mode == IF mode = "readonly" THEN AndNot(current_mode, 146)
                         ELSE BitOr(current_mode, 128)
         IN  Then(m, Report(set_permissions(nd, path, new_mode),
                            << <<"Updated permissions of '{}' to {}", path, mode>> >>,
                            "Error updating permissions of '{}': {}"))

\* the arm of Commands::Chmod after metadata(&path) has returned m: what it
\* does, on the filesystem nd as it is by then
chmod_arm(nd, m, path, mode) ==
    IF m.err # ""
    THEN Then(m, Exit(nd, 1, <<>>, << <<"Error reading metadata for '{}': {}", path, m.err>> >>))
    ELSE IF mode \notin {"readonly", "writable"}
    THEN Then(m, Exit(nd, 1, <<>>, << <<"Invalid mode '{}'. Use 'readonly' or 'writable'", mode>> >>))
    ELSE LET current_mode == m.meta.mode
             new_mode == IF mode = "readonly" THEN AndNot(current_mode, 146)
                         ELSE BitOr(current_mode, 128)
         IN  Then(m, Report(set_permissions(nd, path, new_mode),
                            << <<"Updated permissions of '{}' to {}", path, mode>> >>,
                            "Error updating permissions of '{}': {}"))

\* Commands::Chmod run without another program acting in between
chmod(nd, path, mode) ==
    LET m == metadata(nd, path)
    IN  chmod_arm(m.nd, m, path, mode)

\* fn main: the arm of the subcommand that Cli::parse() returned; stream is
\* what the directory iterator yields to list_dir
main(nd, command, stream) ==
    LET path == command.path
        path2 == command.path2
    IN  CASE command.name = "resolve" ->
               LET r == resolve_path(nd, path)
               IN  Report(r, << <<"Canonical path: {}", r.target>> >>, "Error resolving path '{}': {}")
          [] command.name = "copy" ->
               Report(copy_file(nd, path, path2), << <<"Copied '{}' to '{}'", path, path2>> >>,
                      "Error copying '{}' to '{}': {}")
          [] command.name = "mkdirp" ->
               Report(ensure_dir(nd, path), << <<"Created directories '{}'", path>> >>,
                      "Error creating directories '{}': {}")
          [] command.name = "mkdir" ->
               Report(create_dir(nd, path), << <<"Created directory '{}'", path>> >>,
                      "Error creating directory '{}': {}")
          [] command.name = "ls" ->
               LET r == list_dir(nd, path, stream)
               IN  Report(r, << <<"Contents of '{}':", path>> >>
                                \o [k \in 1 .. Len(r.names) |-> <<"  {}", r.names[k]>>],
                          "Error listing directory '{}': {}")
          [] command.name = "rm" ->
               Report(remove_file(nd, path), << <<"Removed file '{}'", path>> >>,
                      "Error removing file '{}': {}")
          [] command.name = "rmdir" ->
               Report(remove_empty_dir(nd, path), << <<"Removed empty directory '{}'", path>> >>,
                      "Error removing empty directory '{}': {}")
          [] command.name = "rmrf" ->
               Report(remove_dir_all(nd, path), << <<"Removed directory recursively '{}'", path>> >>,
                      "Error removing directory recursively '{}': {}")
          [] command.name = "mv" ->
               Report(move_path(nd, path, path2), << <<"Moved '{}' to '{}'", path, path2>> >>,
                      "Error moving '{}' to '{}': {}")
          [] command.name = "stat" ->
               LET r == metadata(nd, path)
               IN  Report(r, << <<"Metadata for '{}':", path>> >>
                                \o Described(r.meta, [file |-> "File", dir |-> "Directory"]),
                          "Error reading metadata for '{}': {}")
          [] command.name = "read-bytes" ->
               LET r == read_bytes(nd, path)
               IN  Report(r, << <<"Read {} bytes from '{}'", Len(r.bytes), path>>,
                                IF ValidUtf8(r.bytes) THEN <<"Content:\n{}", r.bytes>>
                                ELSE <<"Content contains non-UTF8 data">> >>,
                          "Error reading bytes from '{}': {}")
          [] command.name = "read-text" ->
               LET r == read_text(nd, path)
               IN  Report(r, << <<"Text from '{}':", path>>, <<"{}", r.bytes>> >>,
                          "Error reading text from '{}': {}")
          [] command.name = "write" ->
               Report(write_file(nd, path, command.content),
                      << <<"Wrote {} bytes to '{}'", Len(command.content), path>> >>,
                      "Error writing to '{}': {}")
          [] command.name = "hardlink" ->
               Report(create_hard_link(nd, path, path2),
                      << <<"Created hard link '{}' -> '{}'", path2, path>> >>,
                      "Error creating hard link '{}' -> '{}': {}")
          [] command.name = "symlink" ->
               Report(create_symlink(nd, path, path2),
                      << <<"Created symlink '{}' -> '{}'", path2, path>> >>,
                      "Error creating symlink '{}' -> '{}': {}")
          [] command.name = "readlink" ->
               LET r == read_symlink(nd, path)
               IN  Report(r, << <<"Symbolic link '{}' points to: {}", path, r.target>> >>,
                          "Error reading symlink '{}': {}")
          [] command.name = "chmod" -> chmod(nd, path, command.mode)
          [] command.name = "lstat" ->
               LET r == symlink_metadata(nd, path)
               IN  Report(r, << <<"lstat for '{}':", path>> >>
                                \o Described(r.meta, [symlink |-> "Symbolic Link", file |-> "File",
                                                      dir |-> "Directory"]),
                          "Error lstat '{}': {}")
          [] command.name = "exists" ->
               LET r == exists(nd, path)
                   path_exists == r.flag
               IN  Then(r, Exit(nd, IF path_exists THEN 0 ELSE 1,
                                << <<"Path '{}' exists: {}", path, path_exists>> >>, <<>>))

(***************************************************************************)
(* One action per facade call.  last is the call that has just returned:   *)
(* its name, its arguments and its result; old is the filesystem it was    *)
(* made on.  For survey_canopy, entries is what the directory iterator     *)
(* yielded to it; for adjust_vitality, permissions is the mode it was      *)
(* given.  A run of the command line is the call main, with the subcommand *)
(* in command and the mode keyword of chmod in keyword.                    *)
(***************************************************************************)
Call(op, path, path2, contents, r) ==
    [op |-> op, path |-> path, path2 |-> path2, contents |-> contents,
     err |-> r.err, flag |-> r.flag, bytes |-> r.bytes, names |-> r.names,
     target |-> r.target, meta |-> r.meta, entries |-> r.entries, permissions |-> 0,
     exit |-> r.exit, stdout |-> r.stdout, stderr |-> r.stderr, command |-> "", keyword |-> "",
     calls |-> r.calls]

\* no run of chmod is between its two calls
Idle == [pc |-> "idle", path |-> <<>>, keyword |-> "", m |-> Done(<<>>)]

\* the working directory holds one directory of another user, which this
\* process may neither search nor list
Init ==
    /\ chmod_run = Idle
    /\ node = [i \in Ino |->
                IF i = 0 THEN [DirNode EXCEPT !.ents["c"] = 1]
                ELSE IF i = 1 THEN [DirNode EXCEPT !.locked = TRUE, !.mode = 448]
                ELSE FreeNode]
    /\ old = node
    /\ last = Call("", <<>>, <<>>, <<>>, Done(<<>>))

TraceToRoot(p) ==
    LET r == trace_to_root(node, p)
    IN  /\ old' = node /\ UNCHANGED chmod_run
        /\ node' = r.nd
        /\ last' = Call("trace_to_root", p, <<>>, <<>>, r)

PropagateLeaf(p, q) ==
    LET r == propagate_leaf(node, p, q)
    IN  /\ old' = node /\ UNCHANGED chmod_run
        /\ node' = r.nd
        /\ last' = Call("propagate_leaf", p, q, <<>>, r)

GrowBranch(p) ==
    LET r == grow_branch(node, p)
    IN  /\ old' = node /\ UNCHANGED chmod_run
        /\ node' = r.nd
        /\ last' = Call("grow_branch", p, <<>>, <<>>, r)

Exists(p) ==
    LET r == exists(node, p)
    IN  /\ old' = node /\ UNCHANGED chmod_run
        /\ node' = r.nd
        /\ last' = Call("exists", p, <<>>, <<>>, r)

SproutBranch(p) ==
    LET r == sprout_branch(node, p)
    IN  /\ old' = node /\ UNCHANGED chmod_run
        /\ node' = r.nd
        /\ last' = Call("sprout_branch", p, <<>>, <<>>, r)

ShedLeaf(p) ==
    LET r == shed_leaf(node, p)
    IN  /\ old' = node /\ UNCHANGED chmod_run
        /\ node' = r.nd
        /\ last' = Call("shed_leaf", p, <<>>, <<>>, r)

PruneBranch(p) ==
    LET r == prune_branch(node, p)
    IN  /\ old' = node /\ UNCHANGED chmod_run
        /\ node' = r.nd
        /\ last' = Call("prune_branch", p, <<>>, <<>>, r)

ClearGrove(p) ==
    LET r == clear_grove(node, p)
    IN  /\ old' = node /\ UNCHANGED chmod_run
        /\ node' = r.nd
        /\ last' = Call("clear_grove", p, <<>>, <<>>, r)

Transplant(p, q) ==
    LET r == transplant(node, p, q)
    IN  /\ old' = node /\ UNCHANGED chmod_run
        /\ node' = r.nd
        /\ last' = Call("transplant", p, q, <<>>, r)

HarvestEssence(p) ==
    LET r == harvest_essence(node, p)
    IN  /\ old' = node /\ UNCHANGED chmod_run
        /\ node' = r.nd
        /\ last' = Call("harvest_essence", p, <<>>, <<>>, r)

ReadChronicle(p) ==
    LET r == read_chronicle(node, p)
    IN  /\ old' = node /\ UNCHANGED chmod_run
        /\ node' = r.nd
        /\ last' = Call("read_chronicle", p, <<>>, <<>>, r)

InscribeLeaf(p, c) ==
    LET r == inscribe_leaf(node, p, c)
    IN  /\ old' = node /\ UNCHANGED chmod_run
        /\ node' = r.nd
        /\ last' = Call("inscribe_leaf", p, <<>>, c, r)

CreateHardGraft(p, q) ==
    LET r == create_hard_graft(node, p, q)
    IN  /\ old' = node /\ UNCHANGED chmod_run
        /\ node' = r.nd
        /\ last' = Call("create_hard_graft", p, q, <<>>, r)

ReadSoftConnection(p) ==
    LET r == read_soft_connection(node, p)
    IN  /\ old' = node /\ UNCHANGED chmod_run
        /\ node' = r.nd
        /\ last' = Call("read_soft_connection", p, <<>>, <<>>, r)

CreateSoftConnection(t, p) ==
    LET r == create_soft_connection(node, t, p)
    IN  /\ old' = node /\ UNCHANGED chmod_run
        /\ node' = r.nd
        /\ last' = Call("create_soft_connection", t, p, <<>>, r)

CreateSoftConnectionWindows(t, p) ==
    LET r == create_soft_connection_windows(node, t, p)
    IN  /\ old' = node /\ UNCHANGED chmod_run
        /\ node' = r.nd
        /\ last' = Call("create_soft_connection (windows)", t, p, <<>>, r)

\* another program makes an empty file at p with fs::write; its paths are
\* Path, not str, and so may hold names that are not UTF-8
ForeignWrite(p) ==
    LET r == fs_write(node, p, <<>>)
    IN  /\ old' = node /\ UNCHANGED chmod_run
        /\ node' = r.nd
        /\ last' = Call("fs::write (another program)", p, <<>>, <<>>, r)

ExamineSpecimen(p) ==
    LET r == examine_specimen(node, p)
    IN  /\ old' = node /\ UNCHANGED chmod_run
        /\ node' = r.nd
        /\ last' = Call("examine_specimen", p, <<>>, <<>>, r)

ExamineOuterCharacteristics(p) ==
    LET r == examine_outer_characteristics(node, p)
    IN  /\ old' = node /\ UNCHANGED chmod_run
        /\ node' = r.nd
        /\ last' = Call("examine_outer_characteristics", p, <<>>, <<>>, r)

AdjustVitality(p, m) ==
    LET r == adjust_vitality(node, p, m)
    IN  /\ old' = node /\ UNCHANGED chmod_run
        /\ node' = r.nd
        /\ last' = [Call("adjust_vitality", p, <<>>, <<>>, r) EXCEPT !.permissions = m]

\* enum Commands: the subcommand and its arguments, as Cli::parse() returns them
Command(name, path, path2, content, mode) ==
    [name |-> name, path |-> path, path2 |-> path2, content |-> content, mode |-> mode]

\* one run of the program
Main(command) ==
    \E stream \in (IF command.name = "ls" THEN ReadDirStreams(node, command.path) ELSE {<<>>}) :
        LET r == main(node, command, stream)
        IN  /\ old' = node /\ UNCHANGED chmod_run
            /\ node' = r.nd
            /\ last' = [Call("main", command.path, command.path2, command.content, r)
                           EXCEPT !.command = command.name, !.keyword = command.mode,
                                  !.entries = stream]

\* a run of chmod up to the return of metadata(&path): when that is Err the
\* run ends here, with status 1; when it is Ok the run holds the metadata
\* and has set_permissions before it
ChmodMetadata(p, keyword) ==
    LET m == metadata(node, p)
        r == chmod_arm(m.nd, m, p, keyword)
    IN  /\ chmod_run.pc = "idle"
        /\ old' = node
        /\ node' = m.nd
        /\ IF m.err # ""
           THEN /\ chmod_run' = Idle
                /\ last' = [Call("main", p, <<>>, <<>>, r)
                               EXCEPT !.command = "chmod", !.keyword = keyword]
           ELSE /\ chmod_run' = [pc |-> "metadata", path |-> p, keyword |-> keyword,
                                 m |-> [m EXCEPT !.nd = <<>>]]
                /\ last' = Call("main: metadata", p, <<>>, <<>>, m)

\* the rest of that run: the match on the keyword, set_permissions and the
\* end of the process; last.meta is the metadata the run has held since its
\* first call
ChmodSetPermissions ==
    LET r == chmod_arm(node, chmod_run.m, chmod_run.path, chmod_run.keyword)
    IN  /\ chmod_run.pc = "metadata"
        /\ old' = node
        /\ node' = r.nd
        /\ chmod_run' = Idle
        /\ last' = [Call("main", chmod_run.path, <<>>, <<>>, r)
                       EXCEPT !.command = "chmod", !.keyword = chmod_run.keyword,
                              !.meta = chmod_run.m.meta]

SurveyCanopy(p) ==
    \E stream \in ReadDirStreams(node, p) :
        LET r == survey_canopy(node, p, stream)
        IN  /\ old' = node /\ UNCHANGED chmod_run
            /\ node' = r.nd
            /\ last' = [Call("survey_canopy", p, <<>>, <<>>, r) EXCEPT !.entries = stream]

(***************************************************************************)
(* Leaves: the calls that write, read, link and remove files, on two names *)
(* of the working directory and with every content of up to MaxLen bytes.  *)
(***************************************************************************)
LeafPaths == {<<"a">>, <<"b">>}

NextLeaf ==
    \/ \E p \in LeafPaths, c \in Contents : InscribeLeaf(p, c)
    \/ \E p \in LeafPaths : ReadChronicle(p)
    \/ \E p \in LeafPaths : HarvestEssence(p)
    \/ \E p \in LeafPaths : ShedLeaf(p)
    \/ \E p \in LeafPaths : SproutBranch(p)
    \/ \E p, q \in LeafPaths : CreateHardGraft(p, q)
    \/ \E t, p \in LeafPaths : CreateSoftConnection(t, p)

SpecLeaf == Init /\ [][NextLeaf]_vars

(***************************************************************************)
(* Groves: the calls that make, probe and remove directories, on a tree of *)
(* up to three levels, next to the directory c this process is locked out  *)
(* of.                                                                     *)
(***************************************************************************)
GrovePaths == {<<"a">>, <<"b">>, <<"a", "a">>}
DeepPaths == {<<"a", "a", "a">>, <<"c", "a">>}

NextGrove ==
    \/ \E p \in GrovePaths \cup DeepPaths : GrowBranch(p)
    \/ \E p \in GrovePaths \cup DeepPaths : SproutBranch(p)
    \/ \E p \in GrovePaths \cup DeepPaths \cup {<<"c">>} : Exists(p)
    \/ \E p \in GrovePaths \cup {<<"c">>} : PruneBranch(p)
    \/ \E p \in GrovePaths \cup {<<"c">>} : ClearGrove(p)
    \/ \E p \in GrovePaths : ShedLeaf(p)
    \/ \E p \in GrovePaths \cup DeepPaths : InscribeLeaf(p, <<65>>)
    \/ \E t \in {<<"a">>, <<"b">>} : CreateSoftConnection(t, <<"b">>)

SpecGrove == Init /\ [][NextGrove]_vars

(***************************************************************************)
(* Moves: the calls that rename, link and remove files, on two names of    *)
(* the working directory and one name below the first.                     *)
(***************************************************************************)
MovePaths == {<<"a">>, <<"b">>, <<"a", "a">>}
MoveContents == {<<65>>, <<195, 65>>}

NextMove ==
    \/ \E p, q \in MovePaths : Transplant(p, q)
    \/ \E p, q \in MovePaths : CreateHardGraft(p, q)
    \/ \E p \in MovePaths, c \in MoveContents : InscribeLeaf(p, c)
    \/ \E p \in MovePaths : HarvestEssence(p)
    \/ \E p \in MovePaths : ShedLeaf(p)
    \/ \E p \in MovePaths : Exists(p)
    \/ \E p \in MovePaths : SproutBranch(p)
    \/ \E p \in {<<"a">>} : ClearGrove(p)
    \/ \E p \in {<<"b">>} : CreateSoftConnection(<<"a">>, p)

SpecMove == Init /\ [][NextMove]_vars

(***************************************************************************)
(* Canopies: listing a directory a that comes to hold two files and a      *)
(* directory with a file of its own.                                       *)
(***************************************************************************)
CanopyDirs == {<<"a">>, <<"a", "c">>}
CanopyLeaves == {<<"a", "a">>, <<"a", "b">>, <<"a", "c", "a">>}

NextCanopy ==
    \/ \E p \in CanopyDirs : GrowBranch(p)
    \/ \E p \in CanopyLeaves : InscribeLeaf(p, <<65>>)
    \/ \E p \in CanopyDirs \cup {<<"a", "a">>, <<"b">>, <<"c">>} : SurveyCanopy(p)
    \/ \E p \in CanopyLeaves : ShedLeaf(p)
    \/ \E p \in CanopyDirs \cup {<<"c">>} : PruneBranch(p)

SpecCanopy == Init /\ [][NextCanopy]_vars

(***************************************************************************)
(* Foreign names: a directory with two entries of the facade's making and  *)
(* entries that another program has named with the byte 0xFF.              *)
(***************************************************************************)
ForeignDirs == {<<"a">>}
ForeignLeaves == {<<"a", "a">>, <<"a", "b">>}
ForeignNamed == {<<"a", "0xFF">>, <<"0xFF">>}

NextForeign ==
    \/ \E p \in ForeignDirs : GrowBranch(p)
    \/ \E p \in ForeignLeaves : InscribeLeaf(p, <<65>>)
    \/ \E p \in ForeignNamed : ForeignWrite(p)
    \/ \E p \in ForeignDirs \cup {<<".">>, <<"b">>} : SurveyCanopy(p)
    \/ \E p \in ForeignLeaves : ShedLeaf(p)

SpecForeign == Init /\ [][NextForeign]_vars

(***************************************************************************)
(* Grafts: the calls that copy and link files, on two names of the working *)
(* directory, with contents of different lengths.                          *)
(***************************************************************************)
GraftPaths == {<<"a">>, <<"b">>}
GraftContents == {<<65>>, <<195, 65>>}

NextGraft ==
    \/ \E p, q \in GraftPaths \cup {<<"c">>} : PropagateLeaf(p, q)
    \/ \E p, q \in GraftPaths : CreateHardGraft(p, q)
    \/ \E p \in GraftPaths, c \in GraftContents : InscribeLeaf(p, c)
    \/ \E p \in GraftPaths : HarvestEssence(p)
    \/ \E p \in GraftPaths : ExamineSpecimen(p)
    \/ \E p \in GraftPaths : ShedLeaf(p)
    \/ \E p \in GraftPaths : SproutBranch(p)
    \/ \E t, p \in GraftPaths : CreateSoftConnection(t, p)

SpecGraft == Init /\ [][NextGraft]_vars

(***************************************************************************)
(* The whole facade: every function of lib.rs, on two names of the working *)
(* directory and one below the directory this process is locked out of.    *)
(***************************************************************************)
FacadePaths == {<<"a">>, <<"b">>}
DeniedPaths == {<<"c", "a">>}
\* 'A', which is a text, and 0xC3, which is not
FacadeContents == {<<65>>, <<195>>}
\* Permissions::from_mode of 0o644 and of 0o444, which takes every write bit
FacadeModes == {420, 292}

NextFacade ==
    \/ \E p \in FacadePaths \cup DeniedPaths : TraceToRoot(p)
    \/ \E p, q \in FacadePaths : PropagateLeaf(p, q)
    \/ \E p \in FacadePaths \cup DeniedPaths : GrowBranch(p)
    \/ \E p \in FacadePaths \cup DeniedPaths : Exists(p)
    \/ \E p \in FacadePaths \cup {<<"c">>} : SurveyCanopy(p)
    \/ \E p \in FacadePaths \cup {<<"a", "a">>} : SproutBranch(p)
    \/ \E p \in FacadePaths \cup DeniedPaths : ShedLeaf(p)
    \/ \E p \in FacadePaths : PruneBranch(p)
    \/ \E p \in FacadePaths \cup {<<"c">>} : ClearGrove(p)
    \/ \E p, q \in FacadePaths : Transplant(p, q)
    \/ \E p \in FacadePaths \cup DeniedPaths : ExamineSpecimen(p)
    \/ \E p \in FacadePaths : HarvestEssence(p)
    \/ \E p \in FacadePaths : ReadChronicle(p)
    \/ \E p \in FacadePaths, c \in FacadeContents : InscribeLeaf(p, c)
    \/ \E p, q \in FacadePaths : CreateHardGraft(p, q)
    \/ \E p \in FacadePaths : ReadSoftConnection(p)
    \/ \E p \in FacadePaths \cup {<<"c">>}, m \in FacadeModes : AdjustVitality(p, m)
    \/ \E p \in FacadePaths : ExamineOuterCharacteristics(p)
    \/ \E t, p \in FacadePaths : CreateSoftConnection(t, p)

SpecFacade == Init /\ [][NextFacade]_vars

(***************************************************************************)
(* Calls: every function of the facade once more, on two names and with    *)
(* one content, next to create_soft_connection as built for Windows.  The  *)
(* two builds of create_soft_connection make the same link here, so a run  *)
(* of either build is a run of this specification.                         *)
(***************************************************************************)
NextCalls ==
    \/ \E p \in FacadePaths : TraceToRoot(p)
    \/ \E p, q \in FacadePaths : PropagateLeaf(p, q)
    \/ \E p \in FacadePaths : GrowBranch(p)
    \/ \E p \in FacadePaths : Exists(p)
    \/ \E p \in FacadePaths : SurveyCanopy(p)
    \/ \E p \in FacadePaths \cup {<<"a", "a">>} : SproutBranch(p)
    \/ \E p \in FacadePaths : ShedLeaf(p)
    \/ \E p \in FacadePaths : PruneBranch(p)
    \/ \E p \in FacadePaths : ClearGrove(p)
    \/ \E p, q \in FacadePaths : Transplant(p, q)
    \/ \E p \in FacadePaths : ExamineSpecimen(p)
    \/ \E p \in FacadePaths : HarvestEssence(p)
    \/ \E p \in FacadePaths : ReadChronicle(p)
    \/ \E p \in FacadePaths : InscribeLeaf(p, <<65>>)
    \/ \E p, q \in FacadePaths : CreateHardGraft(p, q)
    \/ \E p \in FacadePaths : ReadSoftConnection(p)
    \/ \E p \in FacadePaths : AdjustVitality(p, 420)
    \/ \E p \in FacadePaths : ExamineOuterCharacteristics(p)
    \/ \E t, p \in FacadePaths : CreateSoftConnection(t, p)
    \/ \E t, p \in FacadePaths : CreateSoftConnectionWindows(t, p)

SpecCalls == Init /\ [][NextCalls]_vars

(***************************************************************************)
(* The command line: runs of the program, one after the other, with every  *)
(* subcommand, on the same paths.                                          *)
(***************************************************************************)
\* what the mode argument of chmod may be: any string
ModeKeywords == {"readonly", "writable", "READONLY", "0644"}
\* the content argument of write is a String
CliContents == {c \in FacadeContents : ValidUtf8(c)} \cup {<<65, 65>>}

NextCli ==
    \/ \E p \in FacadePaths \cup DeniedPaths : Main(Command("resolve", p, <<>>, <<>>, ""))
    \/ \E p, q \in FacadePaths : Main(Command("copy", p, q, <<>>, ""))
    \/ \E p \in FacadePaths \cup DeniedPaths : Main(Command("mkdirp", p, <<>>, <<>>, ""))
    \/ \E p \in FacadePaths \cup {<<"a", "a">>} : Main(Command("mkdir", p, <<>>, <<>>, ""))
    \/ \E p \in FacadePaths \cup {<<"c">>} : Main(Command("ls", p, <<>>, <<>>, ""))
    \/ \E p \in FacadePaths \cup DeniedPaths : Main(Command("rm", p, <<>>, <<>>, ""))
    \/ \E p \in FacadePaths : Main(Command("rmdir", p, <<>>, <<>>, ""))
    \/ \E p \in FacadePaths \cup {<<"c">>} : Main(Command("rmrf", p, <<>>, <<>>, ""))
    \/ \E p, q \in FacadePaths : Main(Command("mv", p, q, <<>>, ""))
    \/ \E p \in FacadePaths \cup DeniedPaths : Main(Command("stat", p, <<>>, <<>>, ""))
    \/ \E p \in FacadePaths : Main(Command("read-bytes", p, <<>>, <<>>, ""))
    \/ \E p \in FacadePaths : Main(Command("read-text", p, <<>>, <<>>, ""))
    \/ \E p \in FacadePaths, c \in CliContents : Main(Command("write", p, <<>>, c, ""))
    \/ \E p, q \in FacadePaths : Main(Command("hardlink", p, q, <<>>, ""))
    \/ \E t, p \in FacadePaths : Main(Command("symlink", t, p, <<>>, ""))
    \/ \E p \in FacadePaths : Main(Command("readlink", p, <<>>, <<>>, ""))
    \/ \E p \in FacadePaths \cup DeniedPaths \cup {<<"c">>}, m \in ModeKeywords :
          Main(Command("chmod", p, <<>>, <<>>, m))
    \/ \E p \in FacadePaths : Main(Command("lstat", p, <<>>, <<>>, ""))
    \/ \E p \in FacadePaths \cup DeniedPaths : Main(Command("exists", p, <<>>, <<>>, ""))

SpecCli == Init /\ [][NextCli]_vars

(***************************************************************************)
(* Modes: the chmod subcommand on files and directories whose modes a      *)
(* caller of the library has set before: with and without the write bits   *)
(* of group and other, with and without the bits of execution.             *)
(***************************************************************************)
ModePaths == {<<"a">>, <<"b">>}
\* 0o664, 0o666, 0o460, 0o755
ChmodModes == {436, 438, 304, 493}

NextMode ==
    \/ \E p \in ModePaths : InscribeLeaf(p, <<65>>)
    \/ \E p \in ModePaths : SproutBranch(p)
    \/ \E p \in ModePaths, m \in ChmodModes : AdjustVitality(p, m)
    \/ \E p \in ModePaths : Main(Command("chmod", p, <<>>, <<>>, "readonly"))
    \/ \E p \in ModePaths : Main(Command("chmod", p, <<>>, <<>>, "writable"))
    \/ \E p \in ModePaths : Main(Command("stat", p, <<>>, <<>>, ""))

SpecMode == Init /\ [][NextMode]_vars

(***************************************************************************)
(* Races: a run of the chmod subcommand, call by call, next to a caller of *)
(* the library that sets modes of the same files at any time.              *)
(***************************************************************************)
RacePaths == {<<"a">>, <<"b">>}
\* 0o755, 0o600, 0o666
RaceModes == {493, 384, 438}
RaceKeywords == {"readonly", "writable"}

NextRace ==
    \/ \E p \in RacePaths : InscribeLeaf(p, <<65>>)
    \/ \E p \in RacePaths, m \in RaceModes : AdjustVitality(p, m)
    \/ \E p \in RacePaths, keyword \in RaceKeywords : ChmodMetadata(p, keyword)
    \/ ChmodSetPermissions

SpecRace == Init /\ [][NextRace]_vars

(***************************************************************************)
(* Connections: symbolic links on two names of the working directory, with *)
(* targets that are relative, start with ".", or are absolute, next to the *)
(* calls that show what a path is and where it leads.                      *)
(***************************************************************************)
LinkPaths == {<<"a">>, <<"b">>}
LinkTargets == {<<"a">>, <<"b">>, <<".", "a">>, <<"/", "b">>}
TracePaths == LinkPaths \cup {<<"a", "a">>, <<"c", "a">>}

NextLink ==
    \/ \E t \in LinkTargets, p \in LinkPaths : CreateSoftConnection(t, p)
    \/ \E p \in LinkPaths : ReadSoftConnection(p)
    \/ \E p \in LinkPaths : ExamineSpecimen(p)
    \/ \E p \in LinkPaths : ExamineOuterCharacteristics(p)
    \/ \E p \in TracePaths : TraceToRoot(p)
    \/ \E p \in LinkPaths : InscribeLeaf(p, <<65>>)
    \/ \E p \in TracePaths : GrowBranch(p)
    \/ \E p \in LinkPaths : SproutBranch(p)
    \/ \E p, q \in LinkPaths : CreateHardGraft(p, q)
    \/ \E p \in LinkPaths : ShedLeaf(p)
    \/ \E p \in LinkPaths : Exists(p)

SpecLink == Init /\ [][NextLink]_vars

\* the table is a filesystem: a tree of directories below inode 0, in
\* depth-first order, with no inode left that nothing refers to
TypeOK ==
    /\ \A i \in Ino : node[i].kind \in {"free", "dir", "file", "symlink"}
    /\ node[0].kind = "dir"
    /\ node = Settle(node)

(***************************************************************************)
(* Claims about leaves (SpecLeaf).                                         *)
(***************************************************************************)

\* C1: when inscribe_leaf(p, c) with a text c has succeeded and the very next
\* call is read_chronicle(p), that call succeeds and returns exactly c.
C1_TextRoundTrip ==
    [][(/\ last.op = "inscribe_leaf" /\ last.err = "" /\ last.contents \in Texts
        /\ last'.op = "read_chronicle" /\ last'.path = last.path)
       => (last'.err = "" /\ last'.bytes = last.contents)]_vars

\* a two-byte text has just been written over a file that held something
\* else, and read_chronicle gives it back
C1_Witness ==
    /\ last.op = "inscribe_leaf" /\ last.err = ""
    /\ last.contents \in Texts /\ Len(last.contents) = 2
    /\ harvest_essence(old, last.path).err = ""
    /\ harvest_essence(old, last.path).bytes # last.contents
    /\ read_chronicle(node, last.path).bytes = last.contents

\* C2: when inscribe_leaf(p, b) has succeeded, for any bytes b, UTF-8 or not,
\* and the very next call is harvest_essence(p), that call succeeds and
\* returns the same bytes.
C2_BytesRoundTrip ==
    [][(/\ last.op = "inscribe_leaf" /\ last.err = ""
        /\ last'.op = "harvest_essence" /\ last'.path = last.path)
       => (last'.err = "" /\ last'.bytes = last.contents)]_vars

\* bytes that are not UTF-8 have just been written, and harvest_essence
\* gives them back
C2_Witness ==
    /\ last.op = "inscribe_leaf" /\ last.err = ""
    /\ ~ValidUtf8(last.contents)
    /\ harvest_essence(node, last.path).bytes = last.contents

\* C3: a successful inscribe_leaf(p, c) leaves a regular file at p that holds
\* exactly c, whether p was missing before (the file is created) or held a
\* file with any earlier content (nothing of it remains); so after any
\* sequence of successful calls on p the file holds the content of the last.
C3_CreateOrOverwrite ==
    (last.op = "inscribe_leaf" /\ last.err = "")
    => LET before == Stat(old, last.path)
           after == Stat(node, last.path)
           r == harvest_essence(node, last.path)
       IN  /\ before.err = ""
           /\ before.ino # NoIno => old[before.ino].kind = "file"
           /\ after.err = "" /\ after.ino # NoIno
           /\ node[after.ino].kind = "file"
           /\ node[after.ino].data = last.contents
           /\ r.err = "" /\ r.bytes = last.contents /\ Len(r.bytes) = Len(last.contents)

\* a file of two bytes has just been overwritten with one byte
C3_Witness ==
    /\ last.op = "inscribe_leaf" /\ last.err = ""
    /\ Len(last.contents) = 1
    /\ harvest_essence(old, last.path).err = ""
    /\ Len(harvest_essence(old, last.path).bytes) = 2
    /\ harvest_essence(node, last.path).bytes = last.contents

(***************************************************************************)
(* Claims about groves (SpecGrove).                                        *)
(***************************************************************************)
Prefixes(path) == {SubSeq(path, 1, k) : k \in 1 .. Len(path)}

\* the entry itself (a final symbolic link not followed) is present
Present(nd, path) == Lstat(nd, path).err = "" /\ Lstat(nd, path).ino # NoIno

\* the entry itself is a directory with at least one entry
FullDir(nd, path) ==
    /\ Present(nd, path)
    /\ nd[Lstat(nd, path).ino].kind = "dir"
    /\ Entries(nd, Lstat(nd, path).ino) # {}

InUse(nd) == {i \in Ino : nd[i].kind # "free"}

\* C4: after a successful grow_branch(p), the path and all its ancestors are
\* directories, and a second grow_branch(p) succeeds too and leaves the
\* filesystem exactly as the first left it.
C4_GrowBranchIdempotent ==
    (last.op = "grow_branch" /\ last.err = "")
    => LET again == grow_branch(node, last.path)
       IN  /\ \A q \in Prefixes(last.path) : is_dir(node, q)
           /\ again.err = ""
           /\ again.nd = node

\* grow_branch has just made a directory and its missing parent, and the
\* second call changes nothing
C4_Witness ==
    /\ last.op = "grow_branch" /\ last.err = ""
    /\ Len(last.path) = 3
    /\ ~Present(old, parent(last.path))
    /\ Cardinality(InUse(node)) = Cardinality(InUse(old)) + 2
    /\ grow_branch(node, last.path).err = ""
    /\ grow_branch(node, last.path).nd = node

\* what sprout_branch itself does: it fails when the parent directory does
\* not exist and when the path already exists, a failed call creates
\* nothing, and a successful one creates the final directory alone, in a
\* parent that was there before
SproutBranchSingle ==
    (last.op = "sprout_branch")
    => /\ (Len(last.path) > 1 /\ ~exists(old, parent(last.path)).flag) => last.err # ""
       /\ Present(old, last.path) => last.err # ""
       /\ last.err # "" => node = old
       /\ last.err = ""
          => /\ is_dir(node, last.path)
             /\ Len(last.path) > 1 => is_dir(old, parent(last.path))
             /\ Cardinality(InUse(node)) = Cardinality(InUse(old)) + 1

\* C5 as stated: sprout_branch as above, unlike grow_branch, which succeeds
\* both when the parent directory does not exist and when the path already
\* exists.
C5_Original ==
    /\ SproutBranchSingle
    /\ (last.op = "sprout_branch")
       => /\ (Len(last.path) > 1 /\ ~exists(old, parent(last.path)).flag)
             => grow_branch(old, last.path).err = ""
          /\ Present(old, last.path) => grow_branch(old, last.path).err = ""

\* C5, amended: sprout_branch as above, unlike grow_branch, which succeeds
\* when the path already exists as a directory, and which does not fail with
\* NotFound where sprout_branch does.
C5_SproutBranchSingle ==
    /\ SproutBranchSingle
    /\ (last.op = "sprout_branch")
       => /\ is_dir(old, last.path) => grow_branch(old, last.path).err = ""
          /\ last.err = "NotFound" => grow_branch(old, last.path).err # "NotFound"

\* sprout_branch has just failed for a path whose parent is missing, where
\* grow_branch would have made both directories
C5_Witness ==
    /\ last.op = "sprout_branch" /\ last.err = "NotFound"
    /\ Len(last.path) = 2
    /\ ~Present(old, parent(last.path))
    /\ node = old
    /\ grow_branch(old, last.path).err = ""

\* C6: exists never returns an error: it returns true when stat on the path
\* succeeds and false in every other case, also when stat fails with
\* something other than NotFound, such as PermissionDenied.
C6_ExistsNeverFails ==
    (last.op = "exists")
    => /\ last.err = ""
       /\ last.flag = (Stat(old, last.path).err = "" /\ Stat(old, last.path).ino # NoIno)
       /\ node = old

\* exists has just answered false for a path below the directory this
\* process may not search, where fs::exists fails with PermissionDenied
C6_Witness ==
    /\ last.op = "exists" /\ last.err = "" /\ last.flag = FALSE
    /\ fs_exists(old, last.path).err = "PermissionDenied"

\* C8: on a directory that holds at least one entry, prune_branch fails and
\* changes nothing, while clear_grove succeeds and removes the directory and
\* everything below it and nothing else.
C8_PruneFailsClearSucceeds ==
    /\ (last.op = "prune_branch" /\ FullDir(old, last.path))
       => /\ last.err # ""
          /\ node = old
          /\ clear_grove(node, last.path).err = ""
    /\ (last.op = "clear_grove" /\ FullDir(old, last.path))
       => LET w == Lstat(old, last.path)
          IN  /\ last.err = ""
              /\ ~Present(node, last.path)
              /\ ~exists(node, last.path).flag
              /\ node = Settle(SetEnt(old, w.parent, w.name, NoIno))

\* clear_grove has just removed a directory that held a directory holding
\* something
C8_Witness ==
    /\ last.op = "clear_grove" /\ last.err = ""
    /\ FullDir(old, last.path)
    /\ FullDir(old, last.path \o <<"a">>)
    /\ prune_branch(old, last.path).err = "DirectoryNotEmpty"
    /\ ~exists(node, last.path).flag

(***************************************************************************)
(* Claims about moves (SpecMove).                                          *)
(***************************************************************************)

\* the entry itself is a regular file
IsLeaf(nd, path) == Present(nd, path) /\ nd[Lstat(nd, path).ino].kind = "file"

\* the calls that can make a path exist
Creators ==
    {"inscribe_leaf", "grow_branch", "sprout_branch", "transplant",
     "create_hard_graft", "create_soft_connection", "propagate_leaf"}

\* C7: after a successful shed_leaf(p), exists(p) returns false, and
\* exists(p) goes on returning false over every later call but one of those
\* that create (write, make a directory, move, link).
C7_ShedLeafThenGone ==
    /\ (last.op = "shed_leaf" /\ last.err = "")
       => /\ ~Present(node, last.path)
          /\ ~exists(node, last.path).flag
    /\ \A p \in MovePaths \cup {<<"b", "a">>} :
          (~exists(old, p).flag /\ exists(node, p).flag) => last.op \in Creators

\* shed_leaf has just removed a regular file that exists reported
C7_Witness ==
    /\ last.op = "shed_leaf" /\ last.err = ""
    /\ IsLeaf(old, last.path)
    /\ exists(old, last.path).flag
    /\ ~exists(node, last.path).flag

\* C10 as stated: after transplant(from, to) has succeeded on a file, from
\* does not exist, to exists, and to holds what from held.
C10_Original ==
    (last.op = "transplant" /\ last.err = "" /\ IsLeaf(old, last.path))
    => /\ ~exists(node, last.path).flag
       /\ exists(node, last.path2).flag
       /\ harvest_essence(node, last.path2).err = ""
       /\ harvest_essence(node, last.path2).bytes = harvest_essence(old, last.path).bytes

\* C10, amended: the same, when from and to did not name the same file
\* before the call (the same path, or two hard links of one file: rename
\* then succeeds and does nothing).
C10_TransplantMovesFile ==
    (/\ last.op = "transplant" /\ last.err = "" /\ IsLeaf(old, last.path)
     /\ Lstat(old, last.path2).ino # Lstat(old, last.path).ino)
    => /\ ~exists(node, last.path).flag
       /\ exists(node, last.path2).flag
       /\ harvest_essence(node, last.path2).err = ""
       /\ harvest_essence(node, last.path2).bytes = harvest_essence(old, last.path).bytes

\* transplant has just moved a file over another file with other content
C10_Witness ==
    /\ last.op = "transplant" /\ last.err = ""
    /\ IsLeaf(old, last.path) /\ IsLeaf(old, last.path2)
    /\ harvest_essence(old, last.path2).bytes # harvest_essence(old, last.path).bytes
    /\ ~exists(node, last.path).flag
    /\ harvest_essence(node, last.path2).bytes = harvest_essence(old, last.path).bytes

(***************************************************************************)
(* Claims about canopies (SpecCanopy).                                     *)
(***************************************************************************)
Range(seq) == {seq[k] : k \in 1 .. Len(seq)}

\* C9: a successful survey_canopy(d) returns the names of the immediate
\* entries of d, each once and nothing else, in some order; for a directory
\* with two files and one directory that holds a file, exactly those three.
C9_SurveyCanopyImmediate ==
    (last.op = "survey_canopy" /\ last.err = "")
    => LET d == Stat(old, last.path).ino
       IN  /\ is_dir(old, last.path)
           /\ Range(last.names) = Entries(old, d)
           /\ Len(last.names) = Cardinality(Entries(old, d))
           /\ node = old

\* survey_canopy has just listed a directory with two files and a directory
\* that holds a file of its own
C9_Witness ==
    /\ last.op = "survey_canopy" /\ last.err = ""
    /\ Len(last.names) = 3
    /\ IsLeaf(old, last.path \o <<"a">>) /\ IsLeaf(old, last.path \o <<"b">>)
    /\ FullDir(old, last.path \o <<"c">>)
    /\ Range(last.names) = {"a", "b", "c"}

(***************************************************************************)
(* Claims about grafts (SpecGraft).                                        *)
(***************************************************************************)

\* the two paths lead to the same file (the same path, two hard links of one
\* file, or a symbolic link and what it leads to)
SameFile(nd, p, q) ==
    /\ Stat(nd, p).err = "" /\ Stat(nd, q).err = ""
    /\ Stat(nd, p).ino # NoIno
    /\ Stat(nd, p).ino = Stat(nd, q).ino

\* after the call the file at path to holds what the file at path from held
\* before it, the file at from holds that still, and writing any content to
\* either leaves the other as it is
CopiedApart(from, to) ==
    LET was == harvest_essence(old, from)
    IN  /\ was.err = ""
        /\ harvest_essence(node, to).err = ""
        /\ harvest_essence(node, to).bytes = was.bytes
        /\ exists(node, from).flag
        /\ harvest_essence(node, from).err = ""
        /\ harvest_essence(node, from).bytes = was.bytes
        /\ \A c \in Contents :
              /\ inscribe_leaf(node, from, c).err = ""
              /\ harvest_essence(inscribe_leaf(node, from, c).nd, to).bytes = was.bytes
              /\ inscribe_leaf(node, to, c).err = ""
              /\ harvest_essence(inscribe_leaf(node, to, c).nd, from).bytes = was.bytes

\* C11 as stated: after propagate_leaf(scion, rootstock) has succeeded,
\* rootstock holds what scion held, scion still exists and holds the same, and
\* a later write to one of the two does not change the other.
C11_Original ==
    (last.op = "propagate_leaf" /\ last.err = "")
    => CopiedApart(last.path, last.path2)

\* what propagate_leaf does guarantee: the same, when scion and rootstock did
\* not lead to the same file before the call (fs::copy truncates the
\* destination before it reads the source, so a file copied onto itself is
\* left empty)
C11_PropagateLeafCopies ==
    (last.op = "propagate_leaf" /\ last.err = "" /\ ~SameFile(old, last.path, last.path2))
    => CopiedApart(last.path, last.path2)

\* propagate_leaf has just copied a file of two bytes over a file that held
\* something else
C11_Witness ==
    /\ last.op = "propagate_leaf" /\ last.err = ""
    /\ IsLeaf(old, last.path) /\ IsLeaf(old, last.path2)
    /\ ~SameFile(old, last.path, last.path2)
    /\ Len(harvest_essence(old, last.path).bytes) = 2
    /\ harvest_essence(old, last.path2).bytes # harvest_essence(old, last.path).bytes
    /\ harvest_essence(node, last.path2).bytes = harvest_essence(old, last.path).bytes
    /\ harvest_essence(node, last.path).bytes = harvest_essence(old, last.path).bytes

\* writing c through path p succeeds when p is a regular file, and a write
\* that succeeds shows in the size examine_specimen reports for path q and in
\* the bytes harvest_essence reads through q
Reflected(p, q, c) ==
    LET w == inscribe_leaf(node, p, c)
    IN  /\ IsLeaf(node, p) => w.err = ""
        /\ w.err = ""
           => /\ examine_specimen(w.nd, q).err = ""
              /\ examine_specimen(w.nd, q).meta.len = Len(c)
              /\ harvest_essence(w.nd, q).err = ""
              /\ harvest_essence(w.nd, q).bytes = c

\* C12: after create_hard_graft(original, link) has succeeded the two paths
\* are names of one file: content of any length written through either is
\* the size examine_specimen reports on the other, and what is read through
\* the other.
C12_HardGraftShares ==
    (last.op = "create_hard_graft" /\ last.err = "")
    => /\ Present(node, last.path) /\ Present(node, last.path2)
       /\ Lstat(node, last.path).ino = Lstat(node, last.path2).ino
       /\ \A c \in Contents :
             /\ Reflected(last.path, last.path2, c)
             /\ Reflected(last.path2, last.path, c)

\* create_hard_graft has just given a file of one byte a second name, and two
\* bytes written through the new name are the size and the content seen
\* through the first
C12_Witness ==
    /\ last.op = "create_hard_graft" /\ last.err = ""
    /\ IsLeaf(old, last.path) /\ ~Present(old, last.path2)
    /\ examine_specimen(node, last.path).meta.len = 1
    /\ LET w == inscribe_leaf(node, last.path2, <<195, 65>>)
       IN  /\ w.err = ""
           /\ examine_specimen(w.nd, last.path).meta.len = 2
           /\ harvest_essence(w.nd, last.path).bytes = <<195, 65>>

(***************************************************************************)
(* Claims about connections (SpecLink).                                    *)
(***************************************************************************)

\* C13: after create_soft_connection(t, l) has succeeded, read_soft_connection(l)
\* succeeds and returns t as it was given: with its "." and its leading "/"
\* or lack of one, whatever t leads to.
C13_TargetRoundTrip ==
    (last.op = "create_soft_connection" /\ last.err = "")
    => /\ read_soft_connection(node, last.path2).err = ""
       /\ read_soft_connection(node, last.path2).target = last.path

\* a link has just been made with a target that starts with "." and leads
\* to a file, so that the target, the target without its ".", and the
\* absolute path it resolves to are three different paths
C13_Witness ==
    /\ last.op = "create_soft_connection" /\ last.err = ""
    /\ Head(last.path) = "."
    /\ IsLeaf(node, Tail(last.path))
    /\ trace_to_root(node, last.path2).err = ""
    /\ trace_to_root(node, last.path2).target = <<"/">> \o Tail(last.path)
    /\ read_soft_connection(node, last.path2).target = last.path

\* the entry itself is a symbolic link
IsLink(nd, path) == Present(nd, path) /\ nd[Lstat(nd, path).ino].kind = "symlink"

\* C14: for every symbolic link in the working directory whose target exists,
\* examine_outer_characteristics reports a symbolic link, and examine_specimen
\* on the same path reports what it reports on the link's target: a file or a
\* directory; examine_specimen never reports a symbolic link.
C14_OuterSeesLink ==
    /\ \A l \in LinkPaths :
          (IsLink(node, l) /\ exists(node, l).flag)
          => LET outer == examine_outer_characteristics(node, l)
                 inner == examine_specimen(node, l)
                 aim == examine_specimen(node, read_soft_connection(node, l).target)
             IN  /\ outer.err = ""
                 /\ outer.meta.file_type = "symlink"
                 /\ inner.err = "" /\ aim.err = ""
                 /\ inner.meta.file_type \in {"file", "dir"}
                 /\ inner.meta = aim.meta
    /\ (last.op = "examine_specimen" /\ last.err = "")
       => last.meta.file_type \in {"file", "dir"}
    /\ (last.op = "examine_outer_characteristics" /\ last.err = "" /\ IsLink(old, last.path))
       => last.meta.file_type = "symlink"

\* examine_outer_characteristics has just reported a symbolic link for a path
\* that leads to a directory
C14_Witness ==
    /\ last.op = "examine_outer_characteristics" /\ last.err = ""
    /\ last.meta.file_type = "symlink"
    /\ exists(node, last.path).flag
    /\ examine_specimen(node, last.path).meta.file_type = "dir"

\* the path the call that has just returned created, if it created one:
\* nothing was at that path before it, and something is now
Created ==
    IF last.err # "" THEN {}
    ELSE IF last.op \in {"grow_branch", "sprout_branch", "inscribe_leaf"}
    THEN {p \in {last.path} : ~Present(old, p) /\ Present(node, p)}
    ELSE IF last.op \in {"create_hard_graft", "create_soft_connection"}
    THEN {p \in {last.path2} : ~Present(old, p) /\ Present(node, p)}
    ELSE {}

\* trace_to_root(p) succeeds with an absolute path that ends with the final
\* component of p
EndsAsGiven(p) ==
    LET r == trace_to_root(node, p)
    IN  /\ r.err = ""
        /\ Head(r.target) = "/"
        /\ r.target[Len(r.target)] = p[Len(p)]

\* trace_to_root fails on every path that does not exist
MissingFails ==
    /\ \A p \in TracePaths : ~exists(node, p).flag => trace_to_root(node, p).err # ""
    /\ (last.op = "trace_to_root" /\ ~exists(old, last.path).flag) => last.err # ""

RECURSIVE IterErr(_)
IterErr(stream) ==
    IF stream = <<>> THEN ""
    ELSE IF Head(stream).err # "" THEN Head(stream).err
    ELSE IterErr(Tail(stream))

\* the std::fs call that the facade call c forwards to, made on filesystem nd
Underlying(nd, c) ==
    CASE c.op = "trace_to_root" -> fs_canonicalize(nd, c.path)
      [] c.op = "propagate_leaf" -> fs_copy(nd, c.path, c.path2)
      [] c.op = "grow_branch" -> fs_create_dir_all(nd, c.path)
      [] c.op = "exists" -> fs_exists(nd, c.path)
      [] c.op = "survey_canopy" ->
            LET r == fs_read_dir(nd, c.path, c.entries)
            IN  IF r.err = "" /\ IterErr(c.entries) # "" THEN Fail(r.nd, IterErr(c.entries))
                ELSE r
      [] c.op = "sprout_branch" -> fs_create_dir(nd, c.path)
      [] c.op = "shed_leaf" -> fs_remove_file(nd, c.path)
      [] c.op = "prune_branch" -> fs_remove_dir(nd, c.path)
      [] c.op = "clear_grove" -> fs_remove_dir_all(nd, c.path)
      [] c.op = "transplant" -> fs_rename(nd, c.path, c.path2)
      [] c.op = "examine_specimen" -> fs_metadata(nd, c.path)
      [] c.op = "harvest_essence" -> fs_read(nd, c.path)
      [] c.op = "read_chronicle" -> fs_read_to_string(nd, c.path)
      [] c.op = "inscribe_leaf" -> fs_write(nd, c.path, c.contents)
      [] c.op = "create_hard_graft" -> fs_hard_link(nd, c.path, c.path2)
      [] c.op = "read_soft_connection" -> fs_read_link(nd, c.path)
      [] c.op = "adjust_vitality" -> fs_set_permissions(nd, c.path, c.permissions)
      [] c.op = "examine_outer_characteristics" -> fs_symlink_metadata(nd, c.path)
      [] c.op = "create_soft_connection" -> fs_symlink(nd, c.path, c.path2)

\* C16: every call of the facade but exists returns an error exactly when the
\* std::fs call it forwards to fails (for survey_canopy: fs::read_dir or a
\* step of its iterator), the error is that call's error, and the filesystem
\* is left as that one call left it: nothing is tried again or undone.
C16_ErrorsPassThrough ==
    (last.op \notin {"", "exists"})
    => /\ last.err = Underlying(old, last).err
       /\ node = Underlying(old, last).nd

\* survey_canopy has just returned the error of the second step of the
\* directory iterator
C16_Witness ==
    /\ last.op = "survey_canopy"
    /\ Len(last.entries) = 2
    /\ fs_read_dir(old, last.path, last.entries).err = ""
    /\ last.entries[1].err = "" /\ last.entries[2].err = "Uncategorized"
    /\ last.err = "Uncategorized"
    /\ node = old

(***************************************************************************)
(* Claims about the command line (SpecCli).                                *)
(***************************************************************************)

\* the operation of the facade behind each subcommand but chmod
Operation ==
    [resolve |-> "trace_to_root", copy |-> "propagate_leaf", mkdirp |-> "grow_branch",
     mkdir |-> "sprout_branch", ls |-> "survey_canopy", rm |-> "shed_leaf",
     rmdir |-> "prune_branch", rmrf |-> "clear_grove", mv |-> "transplant",
     stat |-> "examine_specimen", write |-> "inscribe_leaf", hardlink |-> "create_hard_graft",
     symlink |-> "create_soft_connection", readlink |-> "read_soft_connection",
     lstat |-> "examine_outer_characteristics", exists |-> "exists"]
     @@ ("read-bytes" :> "harvest_essence") @@ ("read-text" :> "read_chronicle")

\* the operation of the run c of the command line succeeds on filesystem nd:
\* its std::fs call returns Ok; for chmod, the mode is read, the keyword is
\* one of the two, and the mode is set
Succeeds(nd, c) ==
    IF c.command = "chmod"
    THEN /\ fs_metadata(nd, c.path).err = ""
         /\ c.keyword \in {"readonly", "writable"}
         /\ fs_set_permissions(nd, c.path, fs_metadata(nd, c.path).meta.mode).err = ""
    ELSE Underlying(nd, [c EXCEPT !.op = Operation[c.command]]).err = ""

C18_ChmodKeywords ==
    (last.op = "main" /\ last.command = "chmod" /\ last.keyword \notin {"readonly", "writable"})
    => /\ last.exit = 1
       /\ last.stdout = <<>>
       /\ \A i \in Ino : node[i].mode = old[i].mode
       /\ node = old
       /\ last.calls = <<"fs::metadata">>

\* an unknown keyword given for an existing, writable file: the metadata
\* call succeeded, the keyword was refused, and "readonly" would have
\* changed the mode
C18_Witness ==
    /\ last.op = "main" /\ last.command = "chmod"
    /\ last.keyword = "READONLY"
    /\ metadata(old, last.path).err = ""
    /\ chmod(old, last.path, "readonly").nd # old
    /\ last.exit = 1
    /\ last.stderr = << <<"Invalid mode '{}'. Use 'readonly' or 'writable'", "READONLY">> >>
    /\ node = old

\* ---------------------------------------------------------------------------
\* the path leads (through symbolic links, if any) to a regular file that
\* the process may read
ReadableFile(nd, path) ==
    LET w == Stat(nd, path)
    IN  /\ w.err = "" /\ w.ino # NoIno
        /\ nd[w.ino].kind = "file"
        /\ MayRead(nd, w.ino)

\* the bytes of the file the path leads to
DataAt(nd, path) == nd[Stat(nd, path).ino].data

\* C19: for a readable file whose content is not valid UTF-8, read_chronicle
\* fails with an error (InvalidData) while harvest_essence on the same file
\* succeeds and returns the bytes; for a file whose content is valid UTF-8
\* both succeed and the text read_chronicle returns is the decoding of the
\* bytes harvest_essence returns
C19_TextOrBytes ==
    (last.op \in {"read_chronicle", "harvest_essence"} /\ ReadableFile(old, last.path))
    => LET data == DataAt(old, last.path)
           text == IF last.op = "read_chronicle" THEN last
                   ELSE read_chronicle(node, last.path)
           raw == IF last.op = "harvest_essence" THEN last
                  ELSE harvest_essence(node, last.path)
       IN  /\ node = old
           /\ raw.err = "" /\ raw.bytes = data
           /\ ~ValidUtf8(data) => (text.err = "InvalidData" /\ text.bytes = <<>>)
           /\ ValidUtf8(data) => (text.err = "" /\ text.bytes = raw.bytes)

\* read_chronicle has just failed on a file of two bytes that harvest_essence
\* reads without error
C19_Witness ==
    /\ last.op = "read_chronicle" /\ last.err = "InvalidData"
    /\ ReadableFile(old, last.path)
    /\ Len(DataAt(old, last.path)) = 2
    /\ harvest_essence(node, last.path).err = ""
    /\ harvest_essence(node, last.path).bytes = DataAt(old, last.path)

\* ---------------------------------------------------------------------------
\* the one call into std::fs that a function of the facade forwards to
StdCall ==
    [op \in {"trace_to_root", "propagate_leaf", "grow_branch", "exists", "sprout_branch",
             "shed_leaf", "prune_branch", "clear_grove", "transplant", "examine_specimen",
             "harvest_essence", "read_chronicle", "inscribe_leaf", "create_hard_graft",
             "read_soft_connection", "adjust_vitality", "examine_outer_characteristics",
             "create_soft_connection"} |->
        CASE op = "trace_to_root" -> "fs::canonicalize"
          [] op = "propagate_leaf" -> "fs::copy"
          [] op = "grow_branch" -> "fs::create_dir_all"
          [] op = "exists" -> "fs::exists"
          [] op = "sprout_branch" -> "fs::create_dir"
          [] op = "shed_leaf" -> "fs::remove_file"
          [] op = "prune_branch" -> "fs::remove_dir"
          [] op = "clear_grove" -> "fs::remove_dir_all"
          [] op = "transplant" -> "fs::rename"
          [] op = "examine_specimen" -> "fs::metadata"
          [] op = "harvest_essence" -> "fs::read"
          [] op = "read_chronicle" -> "fs::read_to_string"
          [] op = "inscribe_leaf" -> "fs::write"
          [] op = "create_hard_graft" -> "fs::hard_link"
          [] op = "read_soft_connection" -> "fs::read_link"
          [] op = "adjust_vitality" -> "fs::set_permissions"
          [] op = "examine_outer_characteristics" -> "fs::symlink_metadata"
          [] op = "create_soft_connection" -> "std::os::unix::fs::symlink"]

\* the steps the loop of survey_canopy takes over a stream: up to its first
\* error, or to the end that the step after the last entry finds
Consumed(stream) ==
    IF \E k \in 1 .. Len(stream) : stream[k].err # ""
    THEN CHOOSE k \in 1 .. Len(stream) :
            /\ stream[k].err # ""
            /\ \A j \in 1 .. k - 1 : stream[j].err = ""
    ELSE Len(stream) + 1

\* C20 as stated: every invocation of a function of the facade makes exactly
\* one call into the filesystem
C20_Original == (last.op # "") => Len(last.calls) = 1

\* C20: every function of the facade makes exactly one call into std::fs,
\* never a second attempt and never the call of another function of the
\* facade, with two exceptions: survey_canopy, after its one fs::read_dir,
\* steps through the iterator it got until the end or the first error; and
\* create_soft_connection as built for Windows first asks whether the target
\* is a directory (Path::is_dir) and then makes one call, symlink_dir if it
\* is and symlink_file if not
C20_SinglePassThrough ==
    (last.op # "")
    => CASE last.op = "survey_canopy" ->
              IF fs_read_dir(old, last.path, last.entries).err # ""
              THEN last.calls = <<"fs::read_dir">>
              ELSE last.calls = <<"fs::read_dir">> \o Nexts(Consumed(last.entries))
         [] last.op = "create_soft_connection (windows)" ->
              last.calls = <<"Path::is_dir",
                             IF is_dir(old, last.path)
                             THEN "std::os::windows::fs::symlink_dir"
                             ELSE "std::os::windows::fs::symlink_file">>
         [] OTHER -> last.calls = <<StdCall[last.op]>>

\* the Windows build has linked to a directory: it asked, then called
\* symlink_dir
C20_Witness ==
    /\ last.op = "create_soft_connection (windows)" /\ last.err = ""
    /\ is_dir(old, last.path)
    /\ last.calls = <<"Path::is_dir", "std::os::windows::fs::symlink_dir">>
    /\ read_soft_connection(node, last.path2).target = last.path

\* ---------------------------------------------------------------------------
\* C21: shed_leaf fails when the path does not exist (no directory entry of
\* that name: NotFound) and fails when the path is a directory (with the
\* error of unlink(2) on a directory); in both cases the filesystem is left unchanged: the
\* directory and everything in it are still there
C21_ShedLeafRefuses ==
    (last.op = "shed_leaf" /\ Lstat(old, last.path).err = "")
    => LET w == Lstat(old, last.path)
       IN  /\ w.ino = NoIno => (last.err = "NotFound" /\ node = old)
           /\ (w.ino # NoIno /\ old[w.ino].kind = "dir")
              => /\ last.err # ""
                 /\ node = old
                 /\ Present(node, last.path)
                 /\ Entries(node, Lstat(node, last.path).ino) = Entries(old, w.ino)

\* shed_leaf has just been refused on a directory that holds an entry, and
\* the entry is still there
C21_Witness ==
    /\ last.op = "shed_leaf" /\ last.err = "IsADirectory"
    /\ FullDir(old, last.path)
    /\ FullDir(node, last.path)
    /\ node = old

\* ---------------------------------------------------------------------------
\* bit k of a mode: 1, 4 and 7 are the write bits of other, group and owner
ModeBit(mode, k) == (mode \div (2 ^ k)) % 2

\* the chmod subcommand, given that keyword for that path, has ended with 0
Chmodded(c, keyword) ==
    c.op = "main" /\ c.command = "chmod" /\ c.keyword = keyword /\ c.exit = 0

\* what one run of chmod does to the mode of the file at its path, bit by bit
ChmodBits ==
    (last.op = "main" /\ last.command = "chmod" /\ last.exit = 0)
    => LET i == Stat(old, last.path).ino
       IN  /\ \A k \in 0 .. 11 :
                 ModeBit(node[i].mode, k) =
                    IF last.keyword = "readonly" /\ k \in {1, 4, 7} THEN 0
                    ELSE IF last.keyword = "writable" /\ k = 7 THEN 1
                    ELSE ModeBit(old[i].mode, k)
           /\ node[i].mode < 2 ^ 12
           /\ node = [old EXCEPT ![i].mode = node[i].mode]

\* C22: on Unix the chmod subcommand changes only write bits: with readonly
\* the new mode is the current mode with the write bits of owner, group and
\* other cleared; with writable it is the current mode with the write bit of
\* the owner set and those of group and other as they were; every other bit
\* of the mode, and everything else in the filesystem, is unchanged.  Hence
\* writable right after readonly on the same path leaves the write bits of
\* group and other cleared, whatever they were before
C22_ChmodWriteBits ==
    /\ []ChmodBits
    /\ [][(/\ Chmodded(last, "readonly") /\ Chmodded(last', "writable")
            /\ last'.path = last.path)
           => LET i == Stat(node, last.path).ino
              IN  /\ ModeBit(node'[i].mode, 7) = 1
                  /\ ModeBit(node'[i].mode, 4) = 0
                  /\ ModeBit(node'[i].mode, 1) = 0]_vars

\* writable has just been given for a file whose mode, 0o460, had the write
\* bit of the group and not that of the owner: it is 0o660 now
C22_Witness ==
    /\ Chmodded(last, "writable")
    /\ old[Stat(old, last.path).ino].kind = "file"
    /\ old[Stat(old, last.path).ino].mode = 304
    /\ node[Stat(old, last.path).ino].mode = 432

\* ---------------------------------------------------------------------------
\* the functions of the facade that only look
ReadOnlyOps ==
    {"exists", "trace_to_root", "survey_canopy", "examine_specimen",
     "examine_outer_characteristics", "harvest_essence", "read_chronicle",
     "read_soft_connection"}

\* what can be seen of a filesystem: the paths of up to three names that
\* lead somewhere, and for each the type, content, link target and mode
Seen(nd) ==
    LET paths == {p \in SeqsUpTo(Names, 3) : p # <<>> /\ Present(nd, p)}
    IN  [p \in paths |->
            LET i == Lstat(nd, p).ino
            IN  [kind |-> nd[i].kind, data |-> nd[i].data, target |-> nd[i].target,
                 mode |-> nd[i].mode]]

\* C23: the read-only operations (exists, trace_to_root, survey_canopy,
\* examine_specimen, examine_outer_characteristics, harvest_essence,
\* read_chronicle, read_soft_connection) leave the filesystem unchanged,
\* whether they succeed or fail: the set of paths, their types, contents,
\* link targets and permissions are the same after the call as before
C23_ReadOnlyFrame ==
    (last.op \in ReadOnlyOps) => (Seen(node) = Seen(old) /\ node = old)

\* read_chronicle has just refused a file that is not UTF-8, in a filesystem
\* that also holds a directory or a link, and nothing has changed
C23_Witness ==
    /\ last.op = "read_chronicle" /\ last.err = "InvalidData"
    /\ \E i \in Ino : node[i].kind \in {"dir", "symlink"} /\ i # 0 /\ ~node[i].locked
    /\ Seen(node) = Seen(old)
    /\ node = old

\* ---------------------------------------------------------------------------
\* the path does not lead anywhere: a name on the way, or the last, is missing
LeadsNowhere(nd, path) ==
    LET w == Stat(nd, path)
    IN  (w.err = "" /\ w.ino = NoIno) \/ w.err = "NotFound"

\* the entry at the path is a symbolic link whose target does not exist
Dangling(nd, path) == IsLink(nd, path) /\ LeadsNowhere(nd, path)

\* C24: create_soft_connection succeeds when its target does not exist (and
\* the name of the link is free); for such a dangling link, and for a link
\* whose target was removed later, exists(link) returns false and
\* examine_specimen(link) fails, although examine_outer_characteristics(link)
\* succeeds with type symlink and read_soft_connection(link) returns the
\* target string: exists(p) = false does not mean that no directory entry
\* named p exists
C24_DanglingLink ==
    /\ (/\ last.op = "create_soft_connection"
        /\ LeadsNowhere(old, last.path)
        /\ Lstat(old, last.path2).err = "" /\ ~Present(old, last.path2))
       => (last.err = "" /\ IsLink(node, last.path2))
    /\ \A p \in LinkPaths :
          Dangling(node, p)
          => /\ ~exists(node, p).flag
             /\ examine_specimen(node, p).err = "NotFound"
             /\ examine_outer_characteristics(node, p).err = ""
             /\ examine_outer_characteristics(node, p).meta.file_type = "symlink"
             /\ read_soft_connection(node, p).err = ""
             /\ read_soft_connection(node, p).target
                    = to_string_lossy(node[Lstat(node, p).ino].target)
    /\ Dangling(old, last.path)
       => /\ last.op = "exists" => ~last.flag
          /\ last.op = "examine_specimen" => last.err = "NotFound"
          /\ last.op = "examine_outer_characteristics"
                => (last.err = "" /\ last.meta.file_type = "symlink")
          /\ last.op = "read_soft_connection"
                => /\ last.err = ""
                   /\ last.target = to_string_lossy(old[Lstat(old, last.path).ino].target)

\* exists has just said false of a name that is a directory entry: a link
\* to "./a", which is not there
C24_Witness ==
    /\ last.op = "exists" /\ ~last.flag
    /\ Dangling(node, last.path)
    /\ Present(node, last.path)
    /\ node[Lstat(node, last.path).ino].target = <<".", "a">>
    /\ examine_outer_characteristics(node, last.path).meta.file_type = "symlink"

\* ---------------------------------------------------------------------------
\* the names that are not UTF-8
NotUtf8Names == {n \in Names : ~ValidUtf8(NameBytes[n])}

\* the names of the entries a stream yields, in its order
Yielded(stream) == [k \in 1 .. Len(stream) |-> stream[k].file_name]

\* seq without the elements that are in S, in the order of seq
RECURSIVE Without(_, _)
Without(seq, S) ==
    IF seq = <<>> THEN <<>>
    ELSE IF Head(seq) \in S THEN Without(Tail(seq), S)
    ELSE <<Head(seq)>> \o Without(Tail(seq), S)

LinkCount(nd, i) ==
    Cardinality({e \in Ino \X Names : nd[e[1]].kind = "dir" /\ nd[e[1]].ents[e[2]] = i})

\* C26: when shed_leaf removes one of the names of a file that
\* create_hard_graft has given a second name, the other name still exists
\* and the full content is still read through it; the file itself goes, and
\* its content becomes unreachable, only with the removal of its last name,
\* whichever of the two that is
C26_LastNameFrees ==
    (/\ last.op = "shed_leaf" /\ last.err = ""
     /\ old[Lstat(old, last.path).ino].kind = "file")
    => LET i == Lstat(old, last.path).ino
           others == {q \in GraftPaths \ {last.path} : Lstat(old, q).ino = i}
       IN  /\ ~Present(node, last.path)
           /\ LinkCount(old, i) >= 2
              => /\ others # {}
                 /\ \A q \in others :
                       /\ exists(node, q).flag
                       /\ harvest_essence(node, q).err = ""
                       /\ harvest_essence(node, q).bytes = old[i].data
                       /\ LinkCount(node, Lstat(node, q).ino) = LinkCount(old, i) - 1
                 /\ Cardinality(InUse(node)) = Cardinality(InUse(old))
           /\ LinkCount(old, i) = 1
              => /\ others = {}
                 /\ Cardinality(InUse(node)) = Cardinality(InUse(old)) - 1

\* shed_leaf has just removed the name b of a file of two bytes that had the
\* names a and b: the two bytes are read through a
C26_Witness ==
    /\ last.op = "shed_leaf" /\ last.err = "" /\ last.path = <<"b">>
    /\ old[Lstat(old, <<"b">>).ino].kind = "file"
    /\ Lstat(old, <<"a">>).ino = Lstat(old, <<"b">>).ino
    /\ Len(old[Lstat(old, <<"b">>).ino].data) = 2
    /\ ~Present(node, <<"b">>)
    /\ harvest_essence(node, <<"a">>).bytes = old[Lstat(old, <<"b">>).ino].data

\* ---------------------------------------------------------------------------
\* a run of chmod has just ended with status 0, after both of its calls
ChmodEnded == last.op = "main" /\ last.command = "chmod" /\ last.exit = 0

\* the bits 0 .. 11 of a mode that are not write bits
OtherBits == (0 .. 11) \ {1, 4, 7}

\* the mode that chmod sets is computed from the mode it read with its first
\* call (last.meta), whatever the file's mode has become since (old)
FromModeRead ==
    ChmodEnded
    => LET i == Stat(old, last.path).ino
       IN  /\ \A k \in OtherBits : ModeBit(node[i].mode, k) = ModeBit(last.meta.mode, k)
           /\ \A k \in {1, 4} :
                 ModeBit(node[i].mode, k) =
                    IF last.keyword = "readonly" THEN 0 ELSE ModeBit(last.meta.mode, k)
           /\ ModeBit(node[i].mode, 7) = (IF last.keyword = "readonly" THEN 0 ELSE 1)
           /\ node = [old EXCEPT ![i].mode = node[i].mode]

\* C27: the chmod subcommand is a read-modify-write over two separate calls
\* (metadata, then set_permissions), and the mode it writes is computed from
\* the mode it read: when another caller changes the file's mode between
\* the two calls, the non-write bits of that change are overwritten by the
\* values read earlier (a lost update); when set_permissions follows
\* metadata with no call in between, no bit other than the write bits changes
C27_LostUpdate ==
    /\ []FromModeRead
    /\ [][(/\ last.op = "main: metadata" /\ chmod_run.pc = "metadata"
            /\ last'.op = "main" /\ last'.command = "chmod" /\ last'.exit = 0)
           => LET i == Stat(node, last.path).ino
              IN  \A k \in OtherBits : ModeBit(node'[i].mode, k) = ModeBit(node[i].mode, k)]_vars

\* between the two calls of chmod readonly on a file of mode 0o644 another
\* caller has set 0o755; chmod has then set 0o444, and the bits of execution
\* are lost
C27_Witness ==
    /\ ChmodEnded /\ last.keyword = "readonly"
    /\ last.meta.mode % 4096 = 420
    /\ old[Stat(old, last.path).ino].mode = 493
    /\ node[Stat(old, last.path).ino].mode = 292

====
